---- MODULE Spec2Model ----
(***************************************************************************)
(* Entity extraction of tree-sitter-db: the tree walker (base.py) and the  *)
(* Python, C and C++ extractors, run over bounded families of syntax trees.*)
(*                                                                         *)
(* A syntax tree is a sequence of node records in pre-order; node i has a  *)
(* type tag, the index of its parent (0 for the root) and the field name   *)
(* under which it hangs from its parent ("" for a plain child).  Anonymous *)
(* punctuation tokens are not nodes of the model: they appear only in the  *)
(* rendered source text, so they occupy bytes.  The source text is a       *)
(* sequence of tokens and a byte offset is an index into it.               *)
(***************************************************************************)
EXTENDS Integers, Sequences, FiniteSets, TLC

VARIABLES
    lang,      \* "python" | "c" | "cpp" | "any" (walker runs)
    gap,       \* 1: sibling items of a C/C++ file are separated by whitespace; 0: they abut
    tree,      \* the syntax tree, a sequence of node records in pre-order
    edits,     \* the number of constructs written into the file
    phase,     \* "edit" (the file is being written) | "parsed" (a pass has run: the
               \* tree is fixed) | "walk" | "done" (a walk_tree run)
    source,    \* the source text the parsed tree indexes into (a token sequence)
    span,      \* span[i] = <<start_byte, end_byte>> of node i, set by parse
    pass,      \* the extraction pass that ran last, "none" before any
    result,    \* the entity list the last pass returned
    walkRoot,  \* the node walk_tree was started at (0: no walk)
    cursor,    \* the TreeCursor's current node
    visited,   \* walk_tree's local flag
    yielded,   \* the nodes walk_tree has yielded so far
    earlier,   \* the <<pass, entity list>> pairs of the runs before the last one, kept
               \* when the passes of a file are run again
    db,        \* the SQLite database: its committed tables, each a set of rows
    pending,   \* the source files the running index_repository has still to visit
    runs,      \* the number of index_repository runs started on the database
    latest     \* history: per path, the entity lists of the last time it was indexed

vars == <<lang, gap, tree, edits, phase, source, span, pass, result, walkRoot, cursor, visited,
          yielded, earlier, db, pending, runs, latest>>

\* Bounds of the model.
MaxConstructs == 3
MaxWalkNodes == 6
MaxRuns == 3
MaxRerunConstructs == 2
MaxIndexRuns == 2
MaxIndexConstructs == 1

None == "<None>"

\* The identifier spelled at node i: every leaf spells its own name.
Names ==
    <<"n1", "n2", "n3", "n4", "n5", "n6", "n7", "n8", "n9", "n10", "n11", "n12", "n13", "n14",
    "n15", "n16", "n17", "n18", "n19", "n20", "n21", "n22", "n23", "n24", "n25", "n26", "n27",
    "n28", "n29", "n30", "n31", "n32", "n33", "n34", "n35", "n36", "n37", "n38", "n39",
    "n40", "n41", "n42", "n43", "n44", "n45", "n46", "n47", "n48", "n49", "n50", "n51", "n52">>

----------------------------------------------------------------------------
(* The syntax-tree abstraction: type, parent, children, field lookup.      *)

Nodes(t) == 1..Len(t)

\* In pre-order the children of a node come after it.
Children(t, i) == { j \in (i + 1)..Len(t) : t[j].parent = i }

RECURSIVE SetToSortedSeq(_)
SetToSortedSeq(S) ==
    IF S = {} THEN <<>>
    ELSE LET m == CHOOSE x \in S : \A y \in S : x <= y
         IN <<m>> \o SetToSortedSeq(S \ {m})

\* node.children, in order (pre-order numbering orders siblings).
ChildSeq(t, i) == SetToSortedSeq(Children(t, i))

\* node.child_by_field_name(f): the first child under field f, or 0.
child_by_field_name(t, i, f) ==
    LET S == { j \in Children(t, i) : t[j].fld = f }
    IN IF S = {} THEN 0 ELSE CHOOSE j \in S : \A k \in S : j <= k

RECURSIVE Ancestors(_, _)
Ancestors(t, i) ==
    IF t[i].parent = 0 THEN {} ELSE {t[i].parent} \cup Ancestors(t, t[i].parent)

Subtree(t, i) == { j \in Nodes(t) : j = i \/ i \in Ancestors(t, j) }

----------------------------------------------------------------------------
(* The input family.  A file is written one construct at a time; a         *)
(* construct is a small subtree of the shape the tree-sitter grammar of    *)
(* the language produces for it.  N(type, up, field): a node of the        *)
(* construct; up = 0 hangs it under the node the construct is written      *)
(* into, up = k under the k-th node of the construct.  A construct with an *)
(* open slot (a declarator still to come, a body to fill) may stay open:   *)
(* that is a tree with a missing field.                                    *)

N(ty, up, f) == [type |-> ty, up |-> up, fld |-> f]
K(under, nodes) == [under |-> under, nodes |-> nodes]

PyBlocks == {"module", "block"}

PyConstructs == {
    \* def a(): ...
    K(PyBlocks, <<N("function_definition", 0, ""), N("identifier", 1, "name"),
                  N("block", 1, "body")>>),
    \* a function_definition whose name field is absent
    K(PyBlocks, <<N("function_definition", 0, ""), N("block", 1, "body")>>),
    \* class a: ...
    K(PyBlocks, <<N("class_definition", 0, ""), N("identifier", 1, "name"),
                  N("block", 1, "body")>>),
    \* a = 0
    K(PyBlocks, <<N("expression_statement", 0, ""), N("assignment", 1, ""),
                  N("identifier", 2, "left")>>),
    \* o.a = 0
    K(PyBlocks, <<N("expression_statement", 0, ""), N("assignment", 1, ""),
                  N("attribute", 2, "left"), N("identifier", 3, "attribute")>>),
    \* a()
    K(PyBlocks, <<N("expression_statement", 0, ""), N("call", 1, ""),
                  N("identifier", 2, "function")>>),
    \* o.a()
    K(PyBlocks, <<N("expression_statement", 0, ""), N("call", 1, ""),
                  N("attribute", 2, "function"), N("identifier", 3, "attribute")>>),
    \* "a": a string literal as a statement
    K(PyBlocks, <<N("expression_statement", 0, ""), N("string", 1, "")>>),
    \* # a
    K(PyBlocks, <<N("comment", 0, "")>>) }

CBlocks == {"translation_unit", "compound_statement"}

CConstructs == {
    \* int a(b) { ... }
    K(CBlocks, <<N("function_definition", 0, ""), N("primitive_type", 1, "type"),
                 N("function_declarator", 1, "declarator"), N("identifier", 3, "declarator"),
                 N("parameter_list", 3, "parameters"), N("compound_statement", 1, "body")>>),
    \* int <declarator> ..., the declarator and the body still to come
    K({"translation_unit"}, <<N("function_definition", 0, ""), N("primitive_type", 1, "type")>>),
    K({"function_definition"}, <<N("compound_statement", 0, "body")>>),
    \* int <declarator>;
    K(CBlocks, <<N("declaration", 0, ""), N("primitive_type", 1, "type")>>),
    \* declarator layers: *<declarator>, (<declarator>), a(b), a, a = 0, a[]
    K({"function_definition", "declaration", "pointer_declarator", "init_declarator"},
      <<N("pointer_declarator", 0, "declarator")>>),
    K({"function_definition"}, <<N("parenthesized_declarator", 0, "declarator")>>),
    K({"function_definition", "pointer_declarator"},
      <<N("function_declarator", 0, "declarator"), N("identifier", 1, "declarator"),
        N("parameter_list", 1, "parameters")>>),
    K({"parenthesized_declarator"},
      <<N("function_declarator", 0, ""), N("identifier", 1, "declarator"),
        N("parameter_list", 1, "parameters")>>),
    K({"declaration", "pointer_declarator", "init_declarator"},
      <<N("identifier", 0, "declarator")>>),
    K({"declaration"}, <<N("init_declarator", 0, "declarator")>>),
    K({"declaration"}, <<N("array_declarator", 0, "declarator"),
                         N("identifier", 1, "declarator")>>),
    \* (*a)(b): a pointer to function
    K({"declaration", "init_declarator"},
      <<N("function_declarator", 0, "declarator"),
        N("parenthesized_declarator", 1, "declarator"), N("pointer_declarator", 2, ""),
        N("identifier", 3, "declarator"), N("parameter_list", 1, "parameters")>>),
    \* (*a(b))(c): a function that returns a pointer to function
    K({"function_definition"},
      <<N("function_declarator", 0, "declarator"),
        N("parenthesized_declarator", 1, "declarator"), N("pointer_declarator", 2, ""),
        N("function_declarator", 3, "declarator"), N("identifier", 4, "declarator"),
        N("parameter_list", 4, "parameters"), N("parameter_list", 1, "parameters")>>),
    \* a();
    K(CBlocks, <<N("expression_statement", 0, ""), N("call_expression", 1, ""),
                 N("identifier", 2, "function")>>),
    \* o.a();
    K(CBlocks, <<N("expression_statement", 0, ""), N("call_expression", 1, ""),
                 N("field_expression", 2, "function"), N("field_identifier", 3, "field")>>) }

CppConstructs ==
    CConstructs \cup {
    \* class a { ... };
    K({"translation_unit"}, <<N("class_specifier", 0, ""), N("type_identifier", 1, "name"),
                              N("field_declaration_list", 1, "body")>>),
    \* int a(b) { ... } inside a class body
    K({"field_declaration_list"},
      <<N("function_definition", 0, ""), N("primitive_type", 1, "type"),
        N("function_declarator", 1, "declarator"), N("field_identifier", 3, "declarator"),
        N("parameter_list", 3, "parameters"), N("compound_statement", 1, "body")>>),
    \* int a::b(c) { ... }
    K({"translation_unit"},
      <<N("function_definition", 0, ""), N("primitive_type", 1, "type"),
        N("function_declarator", 1, "declarator"), N("qualified_identifier", 3, "declarator"),
        N("namespace_identifier", 4, "scope"), N("identifier", 4, "name"),
        N("parameter_list", 3, "parameters"), N("compound_statement", 1, "body")>>),
    \* int a::b::c(d) { ... }
    K({"translation_unit"},
      <<N("function_definition", 0, ""), N("primitive_type", 1, "type"),
        N("function_declarator", 1, "declarator"), N("qualified_identifier", 3, "declarator"),
        N("namespace_identifier", 4, "scope"), N("qualified_identifier", 4, "name"),
        N("namespace_identifier", 6, "scope"), N("identifier", 6, "name"),
        N("parameter_list", 3, "parameters"), N("compound_statement", 1, "body")>>),
    \* int a; inside a class body
    K({"field_declaration_list"},
      <<N("field_declaration", 0, ""), N("primitive_type", 1, "type"),
        N("field_identifier", 1, "declarator")>>),
    \* &<declarator>
    K({"function_definition"}, <<N("reference_declarator", 0, "declarator")>>),
    K({"reference_declarator"},
      <<N("function_declarator", 0, ""), N("identifier", 1, "declarator"),
        N("parameter_list", 1, "parameters")>>),
    \* a::b();
    K(CBlocks, <<N("expression_statement", 0, ""), N("call_expression", 1, ""),
                 N("qualified_identifier", 2, "function"),
                 N("namespace_identifier", 3, "scope"), N("identifier", 3, "name")>>) }

\* Type definitions and their fields, in C and C++.
TypeConstructs(l) ==
    {
    \* struct a { ... };
    K({"translation_unit"}, <<N("struct_specifier", 0, ""), N("type_identifier", 1, "name"),
                              N("field_declaration_list", 1, "body")>>),
    \* struct a;
    K({"translation_unit"}, <<N("struct_specifier", 0, ""), N("type_identifier", 1, "name")>>),
    \* struct { ... };
    K({"translation_unit"}, <<N("struct_specifier", 0, ""),
                              N("field_declaration_list", 1, "body")>>),
    \* int a; inside a struct or class body
    K({"field_declaration_list"},
      <<N("field_declaration", 0, ""), N("primitive_type", 1, "type"),
        N("field_identifier", 1, "declarator")>>),
    \* struct a { ... }; and struct { ... }; inside a struct or class body
    K({"field_declaration_list"},
      <<N("field_declaration", 0, ""), N("struct_specifier", 1, "type"),
        N("type_identifier", 2, "name"), N("field_declaration_list", 2, "body")>>),
    K({"field_declaration_list"},
      <<N("field_declaration", 0, ""), N("struct_specifier", 1, "type"),
        N("field_declaration_list", 2, "body")>>) }
    \cup (IF l = "cpp"
          THEN {K({"translation_unit"},
                  <<N("class_specifier", 0, ""), N("type_identifier", 1, "name"),
                    N("field_declaration_list", 1, "body")>>)}
          ELSE {})

\* The two import statements of Python.
ImportStatements == {"import_statement", "import_from_statement"}

\* Python import statements, and a function to import in.
ImportConstructs ==
    {
    \* import a
    K(PyBlocks, <<N("import_statement", 0, ""), N("dotted_name", 1, "name"),
                  N("identifier", 2, "")>>),
    \* import a.b, c as d
    K(PyBlocks, <<N("import_statement", 0, ""), N("dotted_name", 1, "name"),
                  N("identifier", 2, ""), N("identifier", 2, ""),
                  N("aliased_import", 1, "name"), N("dotted_name", 5, "name"),
                  N("identifier", 6, ""), N("identifier", 5, "alias")>>),
    \* from a import b
    K(PyBlocks, <<N("import_from_statement", 0, ""), N("dotted_name", 1, "module_name"),
                  N("identifier", 2, ""), N("dotted_name", 1, "name"),
                  N("identifier", 4, "")>>),
    \* from a.b import c, d as e
    K(PyBlocks, <<N("import_from_statement", 0, ""), N("dotted_name", 1, "module_name"),
                  N("identifier", 2, ""), N("identifier", 2, ""),
                  N("dotted_name", 1, "name"), N("identifier", 5, ""),
                  N("aliased_import", 1, "name"), N("dotted_name", 7, "name"),
                  N("identifier", 8, ""), N("identifier", 7, "alias")>>),
    \* from . import a
    K(PyBlocks, <<N("import_from_statement", 0, ""), N("relative_import", 1, "module_name"),
                  N("dotted_name", 1, "name"), N("identifier", 3, "")>>),
    \* from <nothing> import a as b: the module_name field is absent
    K(PyBlocks, <<N("import_from_statement", 0, ""), N("aliased_import", 1, "name"),
                  N("dotted_name", 2, "name"), N("identifier", 3, ""),
                  N("identifier", 2, "alias")>>),
    \* def a(): ...
    K(PyBlocks, <<N("function_definition", 0, ""), N("identifier", 1, "name"),
                  N("block", 1, "body")>>) }

\* Declarations and fields of one and of several declarators, in C and C++.
DeclaratorConstructs ==
    {
    \* int a;
    K({"translation_unit"}, <<N("declaration", 0, ""), N("primitive_type", 1, "type"),
                              N("identifier", 1, "declarator")>>),
    \* int a, b;
    K(CBlocks, <<N("declaration", 0, ""), N("primitive_type", 1, "type"),
                 N("identifier", 1, "declarator"), N("identifier", 1, "declarator")>>),
    \* int a = 0, *b;
    K({"translation_unit"}, <<N("declaration", 0, ""), N("primitive_type", 1, "type"),
                              N("init_declarator", 1, "declarator"),
                              N("identifier", 3, "declarator"),
                              N("pointer_declarator", 1, "declarator"),
                              N("identifier", 5, "declarator")>>),
    \* int a(b), c;
    K({"translation_unit"}, <<N("declaration", 0, ""), N("primitive_type", 1, "type"),
                              N("function_declarator", 1, "declarator"),
                              N("identifier", 3, "declarator"),
                              N("parameter_list", 3, "parameters"),
                              N("identifier", 1, "declarator")>>),
    \* int a(b) { ... }
    K({"translation_unit"}, <<N("function_definition", 0, ""), N("primitive_type", 1, "type"),
                              N("function_declarator", 1, "declarator"),
                              N("identifier", 3, "declarator"),
                              N("parameter_list", 3, "parameters"),
                              N("compound_statement", 1, "body")>>),
    \* struct a { ... }; and struct { ... };
    K({"translation_unit"}, <<N("struct_specifier", 0, ""), N("type_identifier", 1, "name"),
                              N("field_declaration_list", 1, "body")>>),
    K({"translation_unit"}, <<N("struct_specifier", 0, ""),
                              N("field_declaration_list", 1, "body")>>),
    \* int a, *b; inside a struct body
    K({"field_declaration_list"},
      <<N("field_declaration", 0, ""), N("primitive_type", 1, "type"),
        N("field_identifier", 1, "declarator"), N("pointer_declarator", 1, "declarator"),
        N("field_identifier", 4, "declarator")>>) }

\* A function, a class, a variable and a call per language: files for running the
\* passes again and in other orders.
RerunConstructs(l) ==
    IF l = "python"
    THEN {K(PyBlocks, <<N("function_definition", 0, ""), N("identifier", 1, "name"),
                        N("block", 1, "body")>>),
          K(PyBlocks, <<N("class_definition", 0, ""), N("identifier", 1, "name"),
                        N("block", 1, "body")>>),
          K(PyBlocks, <<N("expression_statement", 0, ""), N("assignment", 1, ""),
                        N("identifier", 2, "left")>>),
          K(PyBlocks, <<N("expression_statement", 0, ""), N("call", 1, ""),
                        N("identifier", 2, "function")>>)}
    ELSE {K(CBlocks, <<N("function_definition", 0, ""), N("primitive_type", 1, "type"),
                       N("function_declarator", 1, "declarator"),
                       N("identifier", 3, "declarator"),
                       N("parameter_list", 3, "parameters"),
                       N("compound_statement", 1, "body")>>),
          K({"translation_unit"}, <<N("struct_specifier", 0, ""),
                                    N("type_identifier", 1, "name"),
                                    N("field_declaration_list", 1, "body")>>),
          K({"translation_unit", "field_declaration_list"},
            <<N(IF l = "c" THEN "declaration" ELSE "field_declaration", 0, ""),
              N("primitive_type", 1, "type"),
              N(IF l = "c" THEN "identifier" ELSE "field_identifier", 1, "declarator")>>),
          K(CBlocks, <<N("expression_statement", 0, ""), N("call_expression", 1, ""),
                       N("identifier", 2, "function")>>)}

Constructs(l) ==
    CASE l = "python" -> PyConstructs
      [] l = "c" -> CConstructs
      [] l = "cpp" -> CppConstructs
      [] OTHER -> {K({"node"}, <<N("node", 0, "")>>)}

RootType(l) ==
    CASE l = "python" -> "module"
      [] l = "c" -> "translation_unit"
      [] l = "cpp" -> "translation_unit"
      [] OTHER -> "node"

\* Node types whose plain children repeat (statement and item lists).
Containers == {"module", "block", "translation_unit", "compound_statement",
               "field_declaration_list", "node"}

\* The order in which a node's fields appear in the source.
FldRank(f) ==
    CASE f = "scope" -> 0
      [] f \in {"type", "name", "left", "function", "attribute", "field"} -> 1
      [] f = "declarator" -> 2
      [] f = "parameters" -> 3
      [] f = "body" -> 4
      [] OTHER -> 5

MkNode(ty, p, f) == [type |-> ty, parent |-> p, fld |-> f]

\* The nodes a next node (in pre-order) can be appended under.
Spine(t) == {Len(t)} \cup Ancestors(t, Len(t))

CanAppend(t, p, f) ==
    LET kids == Children(t, p)
        last == CHOOSE k \in kids : \A j \in kids : j <= k
    IN IF kids = {} THEN TRUE
       ELSE IF FldRank(f) > FldRank(t[last].fld) THEN TRUE
       ELSE /\ t[p].type \in Containers
            /\ f = ""
            /\ t[last].fld = ""

----------------------------------------------------------------------------
(* The source text of a tree: what the file must spell for the parser to   *)
(* produce it.  Each node type contributes its own tokens before, between  *)
(* and after its children; a leaf spells its own token(s).                 *)

LeafTokens(ty, i) ==
    CASE ty = "parameter_list" -> <<"(", Names[i], ")">>
      [] ty = "string" -> <<"\"", Names[i], "\"">>
      [] ty = "comment" -> <<"#", Names[i]>>
      [] ty = "relative_import" -> <<".">>
      [] OTHER -> <<Names[i]>>

LeafTypes == {"identifier", "field_identifier", "type_identifier", "namespace_identifier",
              "primitive_type", "parameter_list", "string", "comment",
              "relative_import"}

Pre(ty) ==
    CASE ty = "function_definition_py" -> <<"def", " ">>
      [] ty = "class_definition" -> <<"class", " ">>
      [] ty = "class_specifier" -> <<"class", " ">>
      [] ty = "struct_specifier" -> <<"struct", " ">>
      [] ty = "import_statement" -> <<"import", " ">>
      [] ty = "import_from_statement" -> <<"from", " ">>
      [] ty \in {"attribute", "field_expression"} -> <<"o", ".">>
      [] ty = "pointer_declarator" -> <<"*">>
      [] ty = "reference_declarator" -> <<"&">>
      [] ty = "parenthesized_declarator" -> <<"(">>
      [] ty \in {"compound_statement", "field_declaration_list"} -> <<"{">>
      [] OTHER -> <<>>

Post(ty) ==
    CASE ty \in {"call", "call_expression"} -> <<"(", ")">>
      [] ty \in {"assignment", "init_declarator"} -> <<"=", "0">>
      [] ty = "array_declarator" -> <<"[", "]">>
      [] ty = "parenthesized_declarator" -> <<")">>
      [] ty \in {"compound_statement", "field_declaration_list"} -> <<"}">>
      [] ty \in {"declaration", "field_declaration", "expression_statement_c",
                 "class_specifier"} -> <<";">>
      [] OTHER -> <<>>

\* The tokens between two consecutive children; g is the whitespace between items.
Sep(ty, g) ==
    CASE ty \in {"module", "block"} -> <<"\n">>
      [] ty \in {"function_definition_py", "class_definition"} -> <<"(", ")", ":", "\n">>
      [] ty \in {"translation_unit", "compound_statement", "field_declaration_list", "node"} ->
            IF g = 1 THEN <<"\n">> ELSE <<>>
      [] ty \in {"class_specifier", "struct_specifier"} ->
            IF g = 1 THEN <<"\n">> ELSE <<" ">>
      [] ty \in {"function_definition", "declaration", "field_declaration"} -> <<" ">>
      [] ty = "qualified_identifier" -> <<"::">>
      [] ty = "dotted_name" -> <<".">>
      [] ty = "aliased_import" -> <<" ", "as", " ">>
      [] ty \in ImportStatements -> <<",", " ">>
      [] OTHER -> <<>>

\* Python and C share two type tags whose spelling differs.
Spell(l, ty) ==
    IF l = "python" /\ ty = "function_definition" THEN "function_definition_py"
    ELSE IF l # "python" /\ ty = "expression_statement" THEN "expression_statement_c"
    ELSE ty

\* The tokens between child i of p and what comes before it in p.  The first name
\* of a from-import comes after the keyword import.
Lead(l, g, t, p, i) ==
    IF t[p].type = "import_from_statement" /\ t[i].fld = "name"
       /\ ~\E j \in Children(t, p) : j < i /\ t[j].fld = "name"
    THEN IF i - 1 # p THEN <<" ", "import", " ">> ELSE <<"import", " ">>
    ELSE IF t[p].type \in {"declaration", "field_declaration"} /\ t[i].fld = "declarator"
            /\ \E j \in Children(t, p) : j < i /\ t[j].fld = "declarator"
    THEN <<",", " ">>
    ELSE IF i - 1 # p THEN Sep(Spell(l, t[p].type), g) ELSE <<>>

IsLeaf(t, i) == t[i].type \in LeafTypes \/ (t[i].type = "node" /\ Children(t, i) = {})

\* The text and the byte spans of a tree are laid out in pre-order.  A layout is
\* [src: a text, st, en: the start and end offsets, within src, of the nodes that
\* start and end in it].
NoMarks == [j \in {} |-> 0]

\* The closing tokens of x and of its ancestors below stop, appended to acc.
RECURSIVE CloseUp(_, _, _, _, _)
CloseUp(l, t, acc, x, stop) ==
    IF x = stop THEN acc
    ELSE LET src == acc.src \o Post(Spell(l, t[x].type))
         IN CloseUp(l, t, [acc EXCEPT !.src = src, !.en = @ @@ (x :> Len(src))],
                    t[x].parent, stop)

\* What node i adds to the text: the closing tokens of the nodes that end before
\* it, then the tokens its parent spells between its children, then i's own
\* leading tokens.  Piece Len(t) + 1 closes the nodes still open at the end.
Piece(l, g, t, i) ==
    LET last == i > Len(t)
        p == IF last THEN 0 ELSE t[i].parent
        none == [src |-> <<>>, st |-> NoMarks, en |-> NoMarks]
        closed == IF i = 1 THEN none ELSE CloseUp(l, t, none, i - 1, p)
        sep == IF p # 0 THEN Lead(l, g, t, p, i) ELSE <<>>
        at == closed.src \o sep
        own == IF last THEN <<>>
               ELSE IF IsLeaf(t, i) THEN LeafTokens(t[i].type, i)
               ELSE Pre(Spell(l, t[i].type))
    IN [src |-> at \o own, st |-> IF last THEN NoMarks ELSE (i :> Len(at)), en |-> closed.en]

\* Layout b placed after layout a.
Shift(m, off) == [j \in DOMAIN m |-> m[j] + off]
After(a, b) ==
    [src |-> a.src \o b.src,
     st |-> a.st @@ Shift(b.st, Len(a.src)),
     en |-> a.en @@ Shift(b.en, Len(a.src))]

\* The text and the byte spans of tree t, as the parser reports them: the pieces of
\* its nodes one after the other.
Layout(l, g, t) ==
    LET Seg[lo \in 1..(Len(t) + 1), hi \in 1..(Len(t) + 1)] ==
            IF lo = hi THEN Piece(l, g, t, lo)
            ELSE LET mid == (lo + hi) \div 2 IN After(Seg[lo, mid], Seg[mid + 1, hi])
    IN Seg[1, Len(t) + 1]

\* The source text, and node.start_byte / node.end_byte as <<start, end>> per node.
Render(l, g, t) == Layout(l, g, t).src
Spans(l, g, t) == LET lay == Layout(l, g, t) IN [i \in 1..Len(t) |-> <<lay.st[i], lay.en[i]>>]

\* get_node_text: source[node.start_byte:node.end_byte].
get_node_text(i) == SubSeq(source, span[i][1] + 1, span[i][2])

start_byte(i) == span[i][1]
end_byte(i) == span[i][2]

----------------------------------------------------------------------------
(* The tree walker (base.py).                                              *)

\* TreeCursor.goto_first_child: the first child of c, or 0 (False, cursor unmoved).
\* In pre-order the first child of a node is the node that comes right after it.
goto_first_child(t, c) ==
    IF c < Len(t) /\ t[c + 1].parent = c THEN c + 1 ELSE 0

\* A mutation of goto_next_sibling: the cursor may leave the node it was created at.
goto_next_sibling_unrooted(t, root, c) ==
    LET sibs == { j \in (c + 1)..Len(t) : t[j].parent = t[c].parent /\ t[c].parent # 0 }
    IN IF sibs = {} THEN 0 ELSE CHOOSE j \in sibs : \A k \in sibs : j <= k

\* TreeCursor.goto_next_sibling: the next sibling of c, or 0.  The cursor made by
\* node.walk() has that node as its root and cannot leave it.
goto_next_sibling(t, root, c) ==
    LET sibs == { j \in (c + 1)..Len(t) : t[j].parent = t[c].parent }
    IN IF c = root \/ sibs = {} THEN 0
       ELSE CHOOSE j \in sibs : \A k \in sibs : j <= k

\* TreeCursor.goto_parent: the parent of c, or 0 at the cursor's root.
goto_parent(t, root, c) == IF c = root THEN 0 ELSE t[c].parent

\* One iteration of walk_tree's `while True` loop on its locals.
WalkIter(t, root, st) ==
    LET out == IF st.visited THEN st.yielded ELSE Append(st.yielded, st.cursor)
        fc == goto_first_child(t, st.cursor)
        ns == goto_next_sibling(t, root, st.cursor)
        up == goto_parent(t, root, st.cursor)
    IN IF ~st.visited /\ fc # 0
       THEN [cursor |-> fc, visited |-> FALSE, yielded |-> out, done |-> FALSE]
       ELSE IF ns # 0
       THEN [cursor |-> ns, visited |-> FALSE, yielded |-> out, done |-> FALSE]
       ELSE IF up = 0
       THEN [cursor |-> st.cursor, visited |-> FALSE, yielded |-> out, done |-> TRUE]
       ELSE [cursor |-> up, visited |-> TRUE, yielded |-> out, done |-> FALSE]

WalkStart(root) == [cursor |-> root, visited |-> FALSE, yielded |-> <<>>, done |-> FALSE]

RECURSIVE WalkRun(_, _, _)
WalkRun(t, root, st) ==
    IF st.done THEN st.yielded ELSE WalkRun(t, root, WalkIter(t, root, st))

\* walk_tree(node), iterated to exhaustion as every extraction pass does.
walk_tree(t, root) == WalkRun(t, root, WalkStart(root))

----------------------------------------------------------------------------
(* Entities (base.py).  A text is a token sequence; the absent text (None) *)
(* is the one-token sequence NoText, which no source spells.  Every entity *)
(* also records the node it was made from, for the properties to refer to. *)

NoText == <<None>>

\* Python truthiness of an optional string: neither None nor "".
Truthy(x) == x # NoText /\ x # <<>>

FunctionInfo(n, name, ls, le, sig, cls, doc) ==
    [kind |-> "function", node |-> n, name |-> name, line_start |-> ls, line_end |-> le,
     signature |-> sig, class_name |-> cls, docstring |-> doc]

VariableInfo(n, name, line, scope, cls, hint) ==
    [kind |-> "variable", node |-> n, name |-> name, line |-> line, scope |-> scope,
     class_name |-> cls, type_hint |-> hint]

CallInfo(n, callee, line, caller) ==
    [kind |-> "call", node |-> n, callee_name |-> callee, line |-> line,
     caller_function |-> caller]

\* The row of a byte offset: the number of line breaks before it.
Row(off) == Cardinality({ k \in 1..off : source[k] = "\n" })

\* node.start_point[0] and node.end_point[0].
start_row(i) == Row(start_byte(i))
end_row(i) == Row(end_byte(i))

\* The concatenation of Op(n) over the nodes n of a sequence, in order: a generator
\* that yields (from) Op(n) for each node of a walk.
YieldFrom(seq, Op(_)) ==
    LET F[k \in 0..Len(seq)] == IF k = 0 THEN <<>> ELSE F[k - 1] \o Op(seq[k])
    IN F[Len(seq)]

\* A mutation of the phase-2 scan: the last range that holds pos wins (no break).
FindCallerLast(ranges, pos) ==
    LET hits == { k \in 1..Len(ranges) : ranges[k][1] <= pos /\ pos <= ranges[k][2] }
    IN IF hits = {} THEN NoText
       ELSE ranges[CHOOSE k \in hits : \A j \in hits : j <= k][3]

\* The phase-2 scan of extract_calls: the name of the first range of the table with
\* start <= pos <= end (both ends included), or None.
FindCaller(ranges, pos) ==
    LET hits == { k \in 1..Len(ranges) : ranges[k][1] <= pos /\ pos <= ranges[k][2] }
    IN IF hits = {} THEN NoText
       ELSE ranges[CHOOSE k \in hits : \A j \in hits : k <= j][3]

----------------------------------------------------------------------------
(* The Python extractor (python_ext.py).                                   *)

RECURSIVE PyParentClassFrom(_)
PyParentClassFrom(parent) ==
    IF parent = 0 THEN NoText
    ELSE LET name_node == child_by_field_name(tree, parent, "name")
         IN IF tree[parent].type = "class_definition" /\ name_node # 0
            THEN get_node_text(name_node)
            ELSE PyParentClassFrom(tree[parent].parent)

\* A mutation of _get_parent_class: only the node's own parent is looked at.
Py_get_parent_class_direct(node) ==
    LET parent == tree[node].parent
        name_node == IF parent = 0 THEN 0 ELSE child_by_field_name(tree, parent, "name")
    IN IF parent # 0 /\ tree[parent].type = "class_definition" /\ name_node # 0
       THEN get_node_text(name_node)
       ELSE NoText

\* PythonExtractor._get_parent_class
Py_get_parent_class(node) == PyParentClassFrom(tree[node].parent)

\* The quotes of a string literal removed, as text[3:-3] / text[1:-1] do.
Unquote(text) == IF Len(text) >= 2 THEN SubSeq(text, 2, Len(text) - 1) ELSE <<>>

RECURSIVE PyDocstringFrom(_, _)
PyDocstringFrom(kids, k) ==
    IF k > Len(kids) THEN NoText
    ELSE LET child == kids[k]
             expr == goto_first_child(tree, child)
         IN IF tree[child].type = "expression_statement"
            THEN IF expr # 0 /\ tree[expr].type = "string"
                 THEN Unquote(get_node_text(expr))
                 ELSE PyDocstringFrom(kids, k + 1)
            ELSE IF tree[child].type # "comment" THEN NoText
            ELSE PyDocstringFrom(kids, k + 1)

\* PythonExtractor._extract_docstring
Py_extract_docstring(body_node) ==
    IF body_node = 0 THEN NoText ELSE PyDocstringFrom(ChildSeq(tree, body_node), 1)

\* PythonExtractor._extract_function
Py_extract_function(node) ==
    LET name_node == child_by_field_name(tree, node, "name")
        params_node == child_by_field_name(tree, node, "parameters")
        return_node == child_by_field_name(tree, node, "return_type")
        body_node == child_by_field_name(tree, node, "body")
        name == IF name_node # 0 THEN get_node_text(name_node) ELSE <<"<unknown>">>
        params == IF params_node # 0 THEN get_node_text(params_node) ELSE <<"(", ")">>
        return_type == IF return_node # 0 THEN get_node_text(return_node) ELSE <<>>
        sig == <<"def", " ">> \o name \o params
        signature == IF return_type # <<>> THEN sig \o <<" ", "->", " ">> \o return_type
                     ELSE sig
    IN FunctionInfo(node, name, start_row(node) + 1, end_row(node) + 1, signature,
                    Py_get_parent_class(node), Py_extract_docstring(body_node))

\* PythonExtractor.extract_functions
Py_extract_functions ==
    LET One(node) == IF tree[node].type = "function_definition"
                     THEN <<Py_extract_function(node)>> ELSE <<>>
    IN YieldFrom(walk_tree(tree, 1), One)

\* PythonExtractor._extract_assignment
Py_extract_assignment(node) ==
    LET parent == tree[node].parent
        grandparent == IF parent = 0 THEN 0 ELSE tree[parent].parent
        class_name == Py_get_parent_class(node)
        left == child_by_field_name(tree, node, "left")
        Emit(scope, cls) ==
            IF left # 0 /\ tree[left].type = "identifier"
            THEN <<VariableInfo(node, get_node_text(left), start_row(node) + 1,
                                scope, cls, NoText)>>
            ELSE <<>>
    IN IF parent # 0 /\ tree[parent].type = "expression_statement" /\ grandparent # 0
       THEN IF tree[grandparent].type = "module" THEN Emit("global", NoText)
            ELSE IF tree[grandparent].type = "block"
            THEN IF Truthy(class_name) THEN Emit("class", class_name) ELSE <<>>
            ELSE <<>>
       ELSE <<>>

\* PythonExtractor._extract_annotated_assignment
Py_extract_annotated_assignment(node) ==
    LET parent == tree[node].parent
        class_name == Py_get_parent_class(node)
        name_node == child_by_field_name(tree, node, "name")
        type_node == child_by_field_name(tree, node, "type")
        type_hint == IF type_node # 0 THEN get_node_text(type_node) ELSE NoText
        Emit(scope, cls) ==
            IF name_node # 0 /\ tree[name_node].type = "identifier"
            THEN <<VariableInfo(node, get_node_text(name_node), start_row(node) + 1,
                                scope, cls, type_hint)>>
            ELSE <<>>
    IN IF parent # 0 /\ tree[parent].type \in {"module", "block"}
       THEN IF tree[parent].type = "module" THEN Emit("global", NoText)
            ELSE IF Truthy(class_name) THEN Emit("class", class_name) ELSE <<>>
       ELSE <<>>

\* PythonExtractor.extract_variables
Py_extract_variables ==
    LET One(node) ==
            IF tree[node].type = "assignment" THEN Py_extract_assignment(node)
            ELSE IF tree[node].type = "annotated_assignment"
            THEN Py_extract_annotated_assignment(node)
            ELSE <<>>
    IN YieldFrom(walk_tree(tree, 1), One)

\* A mutation of phase 1: the table is left behind by extract_functions instead of
\* being built by extract_calls, and is empty until that pass has run.
Py_func_ranges_of_functions_pass ==
    LET One(node) ==
            LET name_node == child_by_field_name(tree, node, "name")
            IN IF tree[node].type = "function_definition" /\ name_node # 0
               THEN << <<start_byte(node), end_byte(node), get_node_text(name_node)>> >>
               ELSE <<>>
    IN IF pass = "functions" \/ \E run \in earlier : run[1] = "functions"
       THEN YieldFrom(walk_tree(tree, 1), One)
       ELSE <<>>

\* Phase 1 of PythonExtractor.extract_calls: the (start, end, name) table.
Py_func_ranges ==
    LET One(node) ==
            LET name_node == child_by_field_name(tree, node, "name")
            IN IF tree[node].type = "function_definition" /\ name_node # 0
               THEN << <<start_byte(node), end_byte(node), get_node_text(name_node)>> >>
               ELSE <<>>
    IN YieldFrom(walk_tree(tree, 1), One)

\* PythonExtractor.extract_calls
Py_extract_calls ==
    LET func_ranges == Py_func_ranges
        One(node) ==
            LET func_node == child_by_field_name(tree, node, "function")
                attr_node == child_by_field_name(tree, func_node, "attribute")
                callee ==
                    IF func_node = 0 THEN NoText
                    ELSE IF tree[func_node].type = "identifier" THEN get_node_text(func_node)
                    ELSE IF tree[func_node].type = "attribute" /\ attr_node # 0
                    THEN get_node_text(attr_node)
                    ELSE NoText
            IN IF tree[node].type = "call" /\ callee # NoText
               THEN <<CallInfo(node, callee, start_row(node) + 1,
                               FindCaller(func_ranges, start_byte(node)))>>
               ELSE <<>>
    IN YieldFrom(walk_tree(tree, 1), One)

----------------------------------------------------------------------------
(* The C extractor (c_ext.py).                                             *)

\* A mutation of the resolver: a parenthesized declarator is not unwrapped.
RECURSIVE C_declarator_info_no_paren(_)
C_declarator_info_no_paren(node) ==
    LET ty == tree[node].type
        decl == child_by_field_name(tree, node, "declarator")
        params_node == child_by_field_name(tree, node, "parameters")
        params == IF params_node # 0 THEN get_node_text(params_node) ELSE <<"(", ")">>
    IN IF ty = "function_declarator" /\ decl # 0
       THEN IF tree[decl].type = "identifier" THEN <<get_node_text(decl), params>>
            ELSE <<C_declarator_info_no_paren(decl)[1], params>>
       ELSE IF ty = "pointer_declarator" /\ decl # 0 THEN C_declarator_info_no_paren(decl)
       ELSE IF ty = "identifier" THEN <<get_node_text(node), <<"(", ")">> >>
       ELSE <<NoText, <<"(", ")">> >>

\* CExtractor._extract_declarator_info: <<name or NoText, parameter text>>.
RECURSIVE C_extract_declarator_info(_)
C_extract_declarator_info(node) ==
    LET ty == tree[node].type
        decl == child_by_field_name(tree, node, "declarator")
        params_node == child_by_field_name(tree, node, "parameters")
        params == IF params_node # 0 THEN get_node_text(params_node) ELSE <<"(", ")">>
        first == goto_first_child(tree, node)
    IN IF ty = "function_declarator" /\ decl # 0
       THEN IF tree[decl].type = "identifier" THEN <<get_node_text(decl), params>>
            ELSE <<C_extract_declarator_info(decl)[1], params>>
       ELSE IF ty = "pointer_declarator" /\ decl # 0 THEN C_extract_declarator_info(decl)
       ELSE IF ty = "identifier" THEN <<get_node_text(node), <<"(", ")">> >>
       ELSE IF ty = "parenthesized_declarator" /\ first # 0
       THEN C_extract_declarator_info(first)
       ELSE <<NoText, <<"(", ")">> >>

\* CExtractor._extract_function: a sequence of zero (None) or one FunctionInfo.
C_extract_function(node) ==
    LET type_node == child_by_field_name(tree, node, "type")
        declarator == child_by_field_name(tree, node, "declarator")
        info == C_extract_declarator_info(declarator)
        name == info[1]
        params == info[2]
        return_type == IF type_node # 0 THEN get_node_text(type_node) ELSE <<"void">>
        signature == return_type \o <<" ">> \o name \o params
    IN IF declarator = 0 THEN <<>>
       ELSE IF ~Truthy(name) THEN <<>>
       ELSE <<FunctionInfo(node, name, start_row(node) + 1, end_row(node) + 1,
                           signature, NoText, NoText)>>

\* A mutation of extract_functions: the first function_definition that does not
\* resolve ends the pass (a raise where the code skips).
C_extract_functions_until_failure ==
    LET walk == walk_tree(tree, 1)
        fails == { k \in 1..Len(walk) : /\ tree[walk[k]].type = "function_definition"
                                         /\ C_extract_function(walk[k]) = <<>> }
        upto == IF fails = {} THEN Len(walk)
                ELSE (CHOOSE k \in fails : \A j \in fails : k <= j) - 1
        One(node) == IF tree[node].type = "function_definition"
                     THEN C_extract_function(node) ELSE <<>>
    IN YieldFrom(SubSeq(walk, 1, upto), One)

\* CExtractor.extract_functions
C_extract_functions ==
    LET One(node) == IF tree[node].type = "function_definition"
                     THEN C_extract_function(node) ELSE <<>>
    IN YieldFrom(walk_tree(tree, 1), One)

\* CExtractor._get_var_name
RECURSIVE C_get_var_name(_)
C_get_var_name(node) ==
    LET decl == child_by_field_name(tree, node, "declarator")
        ids == { c \in Children(tree, node) : tree[c].type = "identifier" }
    IN IF tree[node].type = "identifier" THEN get_node_text(node)
       ELSE IF tree[node].type \in {"init_declarator", "pointer_declarator", "array_declarator"}
       THEN IF decl # 0 THEN C_get_var_name(decl)
            ELSE IF ids # {} THEN get_node_text(CHOOSE c \in ids : \A d \in ids : c <= d)
            ELSE NoText
       ELSE NoText

\* A mutation of _extract_declaration: a VariableInfo for every declarator.
C_extract_declaration_each_declarator(node) ==
    LET type_node == child_by_field_name(tree, node, "type")
        type_str == IF type_node # 0 THEN get_node_text(type_node) ELSE NoText
        declarators == SelectSeq(ChildSeq(tree, node), LAMBDA c : tree[c].fld = "declarator")
        One(declarator) ==
            IF Truthy(C_get_var_name(declarator))
            THEN <<VariableInfo(node, C_get_var_name(declarator), start_row(node) + 1, "global",
                                NoText, type_str)>>
            ELSE <<>>
    IN YieldFrom(declarators, One)

\* CExtractor._extract_declaration
C_extract_declaration(node) ==
    LET type_node == child_by_field_name(tree, node, "type")
        type_str == IF type_node # 0 THEN get_node_text(type_node) ELSE NoText
        declarator == child_by_field_name(tree, node, "declarator")
        name == C_get_var_name(declarator)
    IN IF declarator # 0 /\ Truthy(name)
       THEN <<VariableInfo(node, name, start_row(node) + 1, "global", NoText, type_str)>>
       ELSE <<>>

\* CExtractor.extract_variables
C_extract_variables ==
    LET One(node) ==
            LET parent == tree[node].parent
            IN IF tree[node].type = "declaration" /\ parent # 0
                  /\ tree[parent].type = "translation_unit"
               THEN C_extract_declaration(node) ELSE <<>>
    IN YieldFrom(walk_tree(tree, 1), One)

\* Phase 1 of CExtractor.extract_calls.
C_func_ranges ==
    LET One(node) ==
            LET declarator == child_by_field_name(tree, node, "declarator")
                name == C_extract_declarator_info(declarator)[1]
            IN IF tree[node].type = "function_definition" /\ declarator # 0 /\ Truthy(name)
               THEN << <<start_byte(node), end_byte(node), name>> >>
               ELSE <<>>
    IN YieldFrom(walk_tree(tree, 1), One)

\* CExtractor.extract_calls
C_extract_calls ==
    LET func_ranges == C_func_ranges
        One(node) ==
            LET func_node == child_by_field_name(tree, node, "function")
            IN IF tree[node].type = "call_expression" /\ func_node # 0
                  /\ tree[func_node].type = "identifier"
               THEN <<CallInfo(node, get_node_text(func_node), start_row(node) + 1,
                               FindCaller(func_ranges, start_byte(node)))>>
               ELSE <<>>
    IN YieldFrom(walk_tree(tree, 1), One)

----------------------------------------------------------------------------
(* The C++ extractor (cpp_ext.py).                                         *)

\* A mutation of the C++ resolver: of the identifier kinds only identifier resolves.
RECURSIVE Cpp_declarator_info_identifier_only(_)
Cpp_declarator_info_identifier_only(node) ==
    LET ty == tree[node].type
        decl == child_by_field_name(tree, node, "declarator")
        params_node == child_by_field_name(tree, node, "parameters")
        params == IF params_node # 0 THEN get_node_text(params_node) ELSE <<"(", ")">>
        first == goto_first_child(tree, node)
    IN IF ty = "function_declarator" /\ decl # 0
       THEN IF tree[decl].type \in {"identifier", "qualified_identifier", "field_identifier"}
            THEN <<get_node_text(decl), params>>
            ELSE <<Cpp_declarator_info_identifier_only(decl)[1], params>>
       ELSE IF ty = "pointer_declarator" /\ decl # 0
       THEN Cpp_declarator_info_identifier_only(decl)
       ELSE IF ty = "reference_declarator" /\ first # 0
       THEN Cpp_declarator_info_identifier_only(first)
       ELSE IF ty = "identifier"
       THEN <<get_node_text(node), <<"(", ")">> >>
       ELSE IF ty = "parenthesized_declarator" /\ first # 0
       THEN Cpp_declarator_info_identifier_only(first)
       ELSE <<NoText, <<"(", ")">> >>

\* CppExtractor._extract_declarator_info: <<name or NoText, parameter text>>.
RECURSIVE Cpp_extract_declarator_info(_)
Cpp_extract_declarator_info(node) ==
    LET ty == tree[node].type
        decl == child_by_field_name(tree, node, "declarator")
        params_node == child_by_field_name(tree, node, "parameters")
        params == IF params_node # 0 THEN get_node_text(params_node) ELSE <<"(", ")">>
        first == goto_first_child(tree, node)
    IN IF ty = "function_declarator" /\ decl # 0
       THEN IF tree[decl].type \in {"identifier", "qualified_identifier", "field_identifier"}
            THEN <<get_node_text(decl), params>>
            ELSE <<Cpp_extract_declarator_info(decl)[1], params>>
       ELSE IF ty = "pointer_declarator" /\ decl # 0 THEN Cpp_extract_declarator_info(decl)
       ELSE IF ty = "reference_declarator" /\ first # 0
       THEN Cpp_extract_declarator_info(first)
       ELSE IF ty \in {"identifier", "qualified_identifier", "field_identifier"}
       THEN <<get_node_text(node), <<"(", ")">> >>
       ELSE IF ty = "parenthesized_declarator" /\ first # 0
       THEN Cpp_extract_declarator_info(first)
       ELSE <<NoText, <<"(", ")">> >>

\* "::" in name
HasScopeSep(name) == \E k \in 1..Len(name) : name[k] = "::"

LastSep(name) == CHOOSE k \in 1..Len(name) :
                    name[k] = "::" /\ \A j \in (k + 1)..Len(name) : name[j] # "::"

\* A mutation of the split: at the first "::" (split, not rsplit).
SplitScopeFirst(name) ==
    LET first == CHOOSE k \in 1..Len(name) :
                    name[k] = "::" /\ \A j \in 1..(k - 1) : name[j] # "::"
    IN <<SubSeq(name, 1, first - 1), SubSeq(name, first + 1, Len(name))>>

\* name.rsplit("::", 1): <<what precedes the last "::", what follows it>>.
RSplitScope(name) ==
    <<SubSeq(name, 1, LastSep(name) - 1), SubSeq(name, LastSep(name) + 1, Len(name))>>

\* A mutation of _extract_function: the class prefix stays in the name.
Cpp_extract_function_qualified(node) ==
    LET type_node == child_by_field_name(tree, node, "type")
        declarator == child_by_field_name(tree, node, "declarator")
        info == Cpp_extract_declarator_info(declarator)
        params == info[2]
        return_type == IF type_node # 0 THEN get_node_text(type_node) ELSE <<"void">>
        class_name == IF HasScopeSep(info[1]) THEN RSplitScope(info[1])[1] ELSE NoText
        signature == return_type \o <<" ">> \o info[1] \o params
    IN IF declarator = 0 THEN <<>>
       ELSE IF ~Truthy(info[1]) THEN <<>>
       ELSE <<FunctionInfo(node, info[1], start_row(node) + 1, end_row(node) + 1,
                           signature, class_name, NoText)>>

\* CppExtractor._extract_function: a sequence of zero (None) or one FunctionInfo.
Cpp_extract_function(node) ==
    LET type_node == child_by_field_name(tree, node, "type")
        declarator == child_by_field_name(tree, node, "declarator")
        info == Cpp_extract_declarator_info(declarator)
        params == info[2]
        return_type == IF type_node # 0 THEN get_node_text(type_node) ELSE <<"void">>
        class_name == IF HasScopeSep(info[1]) THEN RSplitScope(info[1])[1] ELSE NoText
        name == IF HasScopeSep(info[1]) THEN RSplitScope(info[1])[2] ELSE info[1]
        signature == return_type \o <<" ">> \o name \o params
    IN IF declarator = 0 THEN <<>>
       ELSE IF ~Truthy(info[1]) THEN <<>>
       ELSE <<FunctionInfo(node, name, start_row(node) + 1, end_row(node) + 1,
                           signature, class_name, NoText)>>

\* CppExtractor.extract_functions
Cpp_extract_functions ==
    LET One(node) == IF tree[node].type = "function_definition"
                     THEN Cpp_extract_function(node) ELSE <<>>
    IN YieldFrom(walk_tree(tree, 1), One)

RECURSIVE CppParentClassFrom(_)
CppParentClassFrom(parent) ==
    IF parent = 0 THEN NoText
    ELSE LET name_node == child_by_field_name(tree, parent, "name")
         IN IF tree[parent].type \in {"class_specifier", "struct_specifier"} /\ name_node # 0
            THEN get_node_text(name_node)
            ELSE CppParentClassFrom(tree[parent].parent)

\* CppExtractor._get_parent_class
Cpp_get_parent_class(node) == CppParentClassFrom(tree[node].parent)

\* CppExtractor._get_var_name
RECURSIVE Cpp_get_var_name(_)
Cpp_get_var_name(node) ==
    LET decl == child_by_field_name(tree, node, "declarator")
        ids == { c \in Children(tree, node) : tree[c].type \in {"identifier", "field_identifier"} }
    IN IF tree[node].type \in {"identifier", "field_identifier"} THEN get_node_text(node)
       ELSE IF tree[node].type \in {"init_declarator", "pointer_declarator", "array_declarator"}
       THEN IF decl # 0 THEN Cpp_get_var_name(decl)
            ELSE IF ids # {} THEN get_node_text(CHOOSE c \in ids : \A d \in ids : c <= d)
            ELSE NoText
       ELSE NoText

\* CppExtractor._extract_declaration
Cpp_extract_declaration(node, scope, class_name) ==
    LET type_node == child_by_field_name(tree, node, "type")
        type_str == IF type_node # 0 THEN get_node_text(type_node) ELSE NoText
        declarator == child_by_field_name(tree, node, "declarator")
        name == Cpp_get_var_name(declarator)
    IN IF declarator # 0 /\ Truthy(name)
       THEN <<VariableInfo(node, name, start_row(node) + 1, scope, class_name, type_str)>>
       ELSE <<>>

\* CppExtractor._extract_field
Cpp_extract_field(node, class_name) ==
    LET type_node == child_by_field_name(tree, node, "type")
        type_str == IF type_node # 0 THEN get_node_text(type_node) ELSE NoText
        declarator == child_by_field_name(tree, node, "declarator")
        name == Cpp_get_var_name(declarator)
    IN IF declarator # 0 /\ Truthy(name)
       THEN <<VariableInfo(node, name, start_row(node) + 1, "class", class_name, type_str)>>
       ELSE <<>>

\* CppExtractor.extract_variables
Cpp_extract_variables ==
    LET One(node) ==
            LET parent == tree[node].parent
                class_name == Cpp_get_parent_class(node)
            IN IF tree[node].type = "declaration"
               THEN IF parent # 0 /\ tree[parent].type = "translation_unit"
                    THEN Cpp_extract_declaration(node, "global", NoText) ELSE <<>>
               ELSE IF tree[node].type = "field_declaration"
               THEN IF Truthy(class_name) THEN Cpp_extract_field(node, class_name) ELSE <<>>
               ELSE <<>>
    IN YieldFrom(walk_tree(tree, 1), One)

\* A mutation of phase 1: the class prefix of a method name is kept.
Cpp_func_ranges_qualified ==
    LET One(node) ==
            LET declarator == child_by_field_name(tree, node, "declarator")
                name == Cpp_extract_declarator_info(declarator)[1]
            IN IF tree[node].type = "function_definition" /\ declarator # 0 /\ Truthy(name)
               THEN << <<start_byte(node), end_byte(node), name>> >>
               ELSE <<>>
    IN YieldFrom(walk_tree(tree, 1), One)

\* Phase 1 of CppExtractor.extract_calls.
Cpp_func_ranges ==
    LET One(node) ==
            LET declarator == child_by_field_name(tree, node, "declarator")
                name == Cpp_extract_declarator_info(declarator)[1]
                plain == IF HasScopeSep(name) THEN RSplitScope(name)[2] ELSE name
            IN IF tree[node].type = "function_definition" /\ declarator # 0 /\ Truthy(name)
               THEN << <<start_byte(node), end_byte(node), plain>> >>
               ELSE <<>>
    IN YieldFrom(walk_tree(tree, 1), One)

\* CppExtractor.extract_calls
Cpp_extract_calls ==
    LET func_ranges == Cpp_func_ranges
        One(node) ==
            LET func_node == child_by_field_name(tree, node, "function")
                field == child_by_field_name(tree, func_node, "field")
                callee ==
                    IF tree[func_node].type \in {"identifier", "qualified_identifier"}
                    THEN get_node_text(func_node)
                    ELSE IF tree[func_node].type = "field_expression" /\ field # 0
                    THEN get_node_text(field)
                    ELSE NoText
            IN IF tree[node].type = "call_expression" /\ func_node # 0 /\ Truthy(callee)
               THEN <<CallInfo(node, callee, start_row(node) + 1,
                               FindCaller(func_ranges, start_byte(node)))>>
               ELSE <<>>
    IN YieldFrom(walk_tree(tree, 1), One)

----------------------------------------------------------------------------
(* The class pass of the three extractors.                                 *)

ClassInfo(n, name, ls, le, bases, doc) ==
    [kind |-> "class", node |-> n, name |-> name, line_start |-> ls, line_end |-> le,
     bases |-> bases, docstring |-> doc]

\* ", ".join(bases) if bases else None, for the texts of the nodes of seq.
RECURSIVE JoinTexts(_, _)
JoinTexts(seq, k) ==
    IF k > Len(seq) THEN <<>>
    ELSE IF k = Len(seq) THEN get_node_text(seq[k])
    ELSE get_node_text(seq[k]) \o <<",", " ">> \o JoinTexts(seq, k + 1)

\* The base names of a class: the children of the types in `kinds` of its children of
\* type `clause`, joined; None without any.
Bases(node, clause, kinds) ==
    LET bases == SetToSortedSeq({ b \in Nodes(tree) :
                    /\ tree[b].type \in kinds
                    /\ tree[b].parent # 0
                    /\ tree[tree[b].parent].type = clause
                    /\ tree[tree[b].parent].parent = node })
    IN IF bases = <<>> THEN NoText ELSE JoinTexts(bases, 1)

\* PythonExtractor._extract_class
Py_extract_class(node) ==
    LET name_node == child_by_field_name(tree, node, "name")
        body_node == child_by_field_name(tree, node, "body")
        name == IF name_node # 0 THEN get_node_text(name_node) ELSE <<"<unknown>">>
    IN ClassInfo(node, name, start_row(node) + 1, end_row(node) + 1,
                 Bases(node, "argument_list", {"identifier", "attribute"}),
                 Py_extract_docstring(body_node))

\* PythonExtractor.extract_classes
Py_extract_classes ==
    LET One(node) == IF tree[node].type = "class_definition"
                     THEN <<Py_extract_class(node)>> ELSE <<>>
    IN YieldFrom(walk_tree(tree, 1), One)

\* A mutation of _extract_struct: line_end is always the line the node starts on.
C_extract_struct_one_line(node) ==
    LET name_node == child_by_field_name(tree, node, "name")
    IN IF name_node = 0 THEN <<>>
       ELSE <<ClassInfo(node, get_node_text(name_node), start_row(node) + 1,
                        start_row(node) + 1, NoText, NoText)>>

\* CExtractor._extract_struct: a sequence of zero (None) or one ClassInfo.
C_extract_struct(node) ==
    LET name_node == child_by_field_name(tree, node, "name")
        body_node == child_by_field_name(tree, node, "body")
    IN IF name_node = 0 THEN <<>>
       ELSE <<ClassInfo(node, get_node_text(name_node), start_row(node) + 1,
                        IF body_node # 0 THEN end_row(node) + 1 ELSE start_row(node) + 1,
                        NoText, NoText)>>

\* CExtractor.extract_classes
C_extract_classes ==
    LET One(node) == IF tree[node].type = "struct_specifier"
                     THEN C_extract_struct(node) ELSE <<>>
    IN YieldFrom(walk_tree(tree, 1), One)

\* CppExtractor._extract_class: a sequence of zero (None) or one ClassInfo.
Cpp_extract_class(node) ==
    LET name_node == child_by_field_name(tree, node, "name")
        body_node == child_by_field_name(tree, node, "body")
    IN IF name_node = 0 THEN <<>>
       ELSE <<ClassInfo(node, get_node_text(name_node), start_row(node) + 1,
                        IF body_node # 0 THEN end_row(node) + 1 ELSE start_row(node) + 1,
                        Bases(node, "base_class_clause",
                              {"type_identifier", "qualified_identifier"}),
                        NoText)>>

\* CppExtractor.extract_classes
Cpp_extract_classes ==
    LET One(node) == IF tree[node].type \in {"class_specifier", "struct_specifier"}
                     THEN Cpp_extract_class(node) ELSE <<>>
    IN YieldFrom(walk_tree(tree, 1), One)

----------------------------------------------------------------------------
(* The import pass of the Python extractor (python_ext.py).                *)

ImportInfo(n, module, line, alias) ==
    [kind |-> "import", node |-> n, module |-> module, line |-> line, alias |-> alias]

\* PythonExtractor._extract_import: 'import x' or 'import x as y'.
Py_extract_import(node) ==
    LET One(child) ==
            LET name_node == child_by_field_name(tree, child, "name")
                alias_node == child_by_field_name(tree, child, "alias")
                alias == IF alias_node # 0 THEN get_node_text(alias_node) ELSE NoText
            IN IF tree[child].type = "dotted_name"
               THEN <<ImportInfo(child, get_node_text(child), start_row(node) + 1, NoText)>>
               ELSE IF tree[child].type = "aliased_import" /\ name_node # 0
               THEN <<ImportInfo(child, get_node_text(name_node), start_row(node) + 1, alias)>>
               ELSE <<>>
    IN YieldFrom(ChildSeq(tree, node), One)

\* f"{module}.{item}" if module else item
ModuleItem(module, item) == IF module # <<>> THEN module \o <<".">> \o item ELSE item

\* A mutation of _extract_from_import: the module node is not told from the names.
Py_extract_from_import_any_name(node) ==
    LET module_node == child_by_field_name(tree, node, "module_name")
        module == IF module_node # 0 THEN get_node_text(module_node) ELSE <<>>
        One(child) ==
            LET name_node == child_by_field_name(tree, child, "name")
                alias_node == child_by_field_name(tree, child, "alias")
                alias == IF alias_node # 0 THEN get_node_text(alias_node) ELSE NoText
            IN IF tree[child].type = "dotted_name"
               THEN <<ImportInfo(child, ModuleItem(module, get_node_text(child)),
                                 start_row(node) + 1, NoText)>>
               ELSE IF tree[child].type = "aliased_import" /\ name_node # 0
               THEN <<ImportInfo(child, ModuleItem(module, get_node_text(name_node)),
                                 start_row(node) + 1, alias)>>
               ELSE <<>>
    IN YieldFrom(ChildSeq(tree, node), One)

\* PythonExtractor._extract_from_import: 'from x import y' statements.
Py_extract_from_import(node) ==
    LET module_node == child_by_field_name(tree, node, "module_name")
        module == IF module_node # 0 THEN get_node_text(module_node) ELSE <<>>
        One(child) ==
            LET name_node == child_by_field_name(tree, child, "name")
                alias_node == child_by_field_name(tree, child, "alias")
                alias == IF alias_node # 0 THEN get_node_text(alias_node) ELSE NoText
            IN IF tree[child].type = "dotted_name" /\ child # module_node
               THEN <<ImportInfo(child, ModuleItem(module, get_node_text(child)),
                                 start_row(node) + 1, NoText)>>
               ELSE IF tree[child].type = "aliased_import" /\ name_node # 0
               THEN <<ImportInfo(child, ModuleItem(module, get_node_text(name_node)),
                                 start_row(node) + 1, alias)>>
               ELSE <<>>
    IN YieldFrom(ChildSeq(tree, node), One)

\* PythonExtractor.extract_imports
Py_extract_imports ==
    LET One(node) ==
            IF tree[node].type = "import_statement" THEN Py_extract_import(node)
            ELSE IF tree[node].type = "import_from_statement"
            THEN Py_extract_from_import(node)
            ELSE <<>>
    IN YieldFrom(walk_tree(tree, 1), One)

----------------------------------------------------------------------------
(* The five passes behind one interface (BaseExtractor).                   *)

extract_functions ==
    CASE lang = "python" -> Py_extract_functions
      [] lang = "c" -> C_extract_functions
      [] lang = "cpp" -> Cpp_extract_functions

extract_classes ==
    CASE lang = "python" -> Py_extract_classes
      [] lang = "c" -> C_extract_classes
      [] lang = "cpp" -> Cpp_extract_classes

extract_variables ==
    CASE lang = "python" -> Py_extract_variables
      [] lang = "c" -> C_extract_variables
      [] lang = "cpp" -> Cpp_extract_variables

extract_calls ==
    CASE lang = "python" -> Py_extract_calls
      [] lang = "c" -> C_extract_calls
      [] lang = "cpp" -> Cpp_extract_calls

----------------------------------------------------------------------------
(* The SQLite database (schema.py) and the statements index_repository     *)
(* runs on it.  A table is the set of its rows; the id column of a row is  *)
(* its INTEGER PRIMARY KEY.  The indexed_at column of files, a timestamp,  *)
(* is left out.                                                            *)

\* The tables of SCHEMA whose rows reference files(id).
DataTables == {"functions", "classes", "imports", "variables", "calls"}

\* init_db on a new database file: every table of SCHEMA, empty.  On an existing
\* one CREATE TABLE IF NOT EXISTS leaves the tables as they are.
EmptyDb ==
    [files |-> {}, functions |-> {}, classes |-> {}, imports |-> {}, variables |-> {},
     calls |-> {}]

\* No path has been indexed.
NeverIndexed == [p \in {} |-> <<>>]

\* The rowid SQLite gives a row inserted without an id: one more than the largest
\* id of the table.
NewRowid(rows) ==
    IF rows = {} THEN 1
    ELSE (CHOOSE r \in rows : \A q \in rows : q.id <= r.id).id + 1

\* A mutation of the INSERT OR REPLACE: the connection runs without foreign keys, the
\* replaced files row goes and the rows referencing it stay.
InsertOrReplaceFile_no_cascade(d, path, language) ==
    LET old == { f \in d.files : f.path = path }
    IN [d EXCEPT !.files = (@ \ old) \cup
                     {[id |-> NewRowid(d.files), path |-> path, language |-> language]}]

\* INSERT OR REPLACE INTO files (path, language, indexed_at): path is UNIQUE, so a
\* row of the same path is deleted before the new row goes in under a new id; init_db
\* set foreign_keys = ON, so every row referencing the deleted row goes with it
\* (ON DELETE CASCADE).
InsertOrReplaceFile(d, path, language) ==
    LET old == { f \in d.files : f.path = path }
        gone == { f.id : f \in old }
    IN [t \in DOMAIN d |->
          IF t = "files"
          THEN (d.files \ old) \cup
                   {[id |-> NewRowid(d.files), path |-> path, language |-> language]}
          ELSE { r \in d[t] : r.file_id \notin gone }]

\* cursor.lastrowid after the INSERT OR REPLACE: the id of the row of this path.
lastrowid(d, path) == (CHOOSE f \in d.files : f.path = path).id

\* clear_file_data: the five DELETE ... WHERE file_id = ? statements.
clear_file_data(d, file_id) ==
    [t \in DOMAIN d |->
        IF t \in DataTables THEN { r \in d[t] : r.file_id # file_id } ELSE d[t]]

\* The row each INSERT of index_repository writes for an entity.
RowOf(table, id, file_id, e) ==
    CASE table = "functions" ->
           [id |-> id, file_id |-> file_id, name |-> e.name, line_start |-> e.line_start,
            line_end |-> e.line_end, signature |-> e.signature,
            class_name |-> e.class_name, docstring |-> e.docstring]
      [] table = "classes" ->
           [id |-> id, file_id |-> file_id, name |-> e.name, line_start |-> e.line_start,
            line_end |-> e.line_end, bases |-> e.bases, docstring |-> e.docstring]
      [] table = "imports" ->
           [id |-> id, file_id |-> file_id, module |-> e.module, alias |-> e.alias,
            line |-> e.line]
      [] table = "variables" ->
           [id |-> id, file_id |-> file_id, name |-> e.name, line |-> e.line,
            scope |-> e.scope, class_name |-> e.class_name, type_hint |-> e.type_hint]
      [] table = "calls" ->
           [id |-> id, file_id |-> file_id, caller_function |-> e.caller_function,
            callee_name |-> e.callee_name, line |-> e.line]

\* One of the five insert loops: an INSERT per entity, in the order the pass yields.
RECURSIVE InsertEach(_, _, _, _, _)
InsertEach(d, table, file_id, entities, k) ==
    IF k > Len(entities) THEN d
    ELSE InsertEach([d EXCEPT ![table] =
                         @ \cup {RowOf(table, NewRowid(d[table]), file_id, entities[k])}],
                    table, file_id, entities, k + 1)

\* The imports pass of the extractor: the files of the model's repository are Python
\* files (the include pass of the C and C++ extractors is not modelled).
extract_imports ==
    CASE lang = "python" -> Py_extract_imports

\* The entity lists the five passes return for the parsed file.
Extracted ==
    [functions |-> extract_functions, classes |-> extract_classes,
     imports |-> extract_imports, variables |-> extract_variables,
     calls |-> extract_calls]

\* The body of index_repository's loop for one file, up to its commit.
IndexedFile(d, path, language, lists) ==
    LET replaced == InsertOrReplaceFile(d, path, language)
        file_id == lastrowid(replaced, path)
        cleared == clear_file_data(replaced, file_id)
        functions == InsertEach(cleared, "functions", file_id, lists.functions, 1)
        classes == InsertEach(functions, "classes", file_id, lists.classes, 1)
        imports == InsertEach(classes, "imports", file_id, lists.imports, 1)
        variables == InsertEach(imports, "variables", file_id, lists.variables, 1)
    IN InsertEach(variables, "calls", file_id, lists.calls, 1)

----------------------------------------------------------------------------
(* Writing a file and parsing it.                                          *)

\* The nodes of construct k written under node p of tree t.
Written(t, p, k) ==
    [j \in 1..Len(k.nodes) |->
        MkNode(k.nodes[j].type,
               IF k.nodes[j].up = 0 THEN p ELSE Len(t) + k.nodes[j].up,
               k.nodes[j].fld)]

WriteLimit == IF lang = "any" THEN MaxWalkNodes - 1 ELSE MaxConstructs

\* The file grows by one construct, and extractor.parse gives the tree of the new
\* text: the construct's nodes come next in pre-order, the byte spans follow the text.
AddConstruct(p, k) ==
    /\ phase = "edit"
    /\ edits < WriteLimit
    /\ p \in Spine(tree)
    /\ tree[p].type \in k.under
    /\ CanAppend(tree, p, k.nodes[1].fld)
    /\ edits' = edits + 1
    /\ tree' = tree \o Written(tree, p, k)
    /\ source' = Render(lang, gap, tree')
    /\ span' = Spans(lang, gap, tree')
    /\ UNCHANGED <<db, pending, runs, latest, earlier, lang, gap, phase, pass, result, walkRoot, cursor, visited, yielded>>

\* walk_tree(n) is called and runs up to its first iteration.
StartWalk(n) ==
    /\ phase = "edit"
    /\ n \in Nodes(tree)
    /\ phase' = "walk"
    /\ walkRoot' = n
    /\ cursor' = WalkStart(n).cursor
    /\ visited' = WalkStart(n).visited
    /\ yielded' = WalkStart(n).yielded
    /\ UNCHANGED <<db, pending, runs, latest, earlier, lang, gap, tree, edits, source, span, pass, result>>

\* The consumer asks for the next node: one iteration of the loop.
WalkStep ==
    /\ phase = "walk"
    /\ LET st == WalkIter(tree, walkRoot,
                          [cursor |-> cursor, visited |-> visited,
                           yielded |-> yielded, done |-> FALSE])
       IN /\ cursor' = st.cursor
          /\ visited' = st.visited
          /\ yielded' = st.yielded
          /\ phase' = IF st.done THEN "done" ELSE "walk"
    /\ UNCHANGED <<db, pending, runs, latest, earlier, lang, gap, tree, edits, source, span, pass, result, walkRoot>>

InitCommon ==
    /\ phase = "edit"
    /\ edits = 0
    /\ source = Render(lang, gap, tree)
    /\ span = Spans(lang, gap, tree)
    /\ pass = "none"
    /\ result = <<>>
    /\ walkRoot = 0
    /\ cursor = 0
    /\ visited = FALSE
    /\ yielded = <<>>
    /\ earlier = {}
    /\ db = EmptyDb
    /\ pending = <<>>
    /\ runs = 0
    /\ latest = NeverIndexed

InitWalk ==
    /\ lang = "any"
    /\ gap = 1
    /\ tree = <<MkNode("node", 0, "")>>
    /\ InitCommon

NextWalk ==
    \/ \E p \in Nodes(tree), k \in Constructs(lang) : AddConstruct(p, k)
    \/ \E n \in Nodes(tree) : StartWalk(n)
    \/ WalkStep

SpecWalk == InitWalk /\ [][NextWalk]_vars /\ WF_vars(WalkStep)

\* index_repository runs the passes over the parsed tree one after the other, each
\* returning its entity list; from the first pass on the tree is fixed.
ExtractFunctions ==
    /\ phase = "edit"
    /\ pass = "none"
    /\ phase' = "parsed"
    /\ pass' = "functions"
    /\ result' = extract_functions
    /\ UNCHANGED <<db, pending, runs, latest, earlier, lang, gap, tree, edits, source, span, walkRoot, cursor, visited, yielded>>

ExtractClasses ==
    /\ phase = "parsed"
    /\ pass = "functions"
    /\ pass' = "classes"
    /\ result' = extract_classes
    /\ UNCHANGED <<db, pending, runs, latest, earlier, lang, gap, tree, edits, phase, source, span, walkRoot, cursor, visited, yielded>>

ExtractVariables ==
    /\ phase = "parsed"
    /\ pass \in {"functions", "classes"}
    /\ pass' = "variables"
    /\ result' = extract_variables
    /\ UNCHANGED <<db, pending, runs, latest, earlier, lang, gap, tree, edits, phase, source, span, walkRoot, cursor, visited, yielded>>

ExtractCalls ==
    /\ phase = "parsed"
    /\ pass = "variables"
    /\ pass' = "calls"
    /\ result' = extract_calls
    /\ UNCHANGED <<db, pending, runs, latest, earlier, lang, gap, tree, edits, phase, source, span, walkRoot, cursor, visited, yielded>>

Init ==
    /\ lang \in {"python", "c", "cpp"}
    /\ gap \in (IF lang = "python" THEN {1} ELSE {0, 1})
    /\ tree = <<MkNode(RootType(lang), 0, "")>>
    /\ InitCommon

Next ==
    \/ \E p \in Nodes(tree), k \in Constructs(lang) : AddConstruct(p, k)
    \/ ExtractFunctions
    \/ ExtractVariables
    \/ ExtractCalls

Spec == Init /\ [][Next]_vars

\* The passes run on one parsed file again and in any order: the entity list of the
\* run before goes to `earlier`.
Passes == {"functions", "classes", "variables", "calls"}

RunPass(p) ==
    /\ phase \in {"edit", "parsed"}
    /\ Cardinality(earlier) + (IF pass = "none" THEN 0 ELSE 1) < MaxRuns
    /\ phase' = "parsed"
    /\ pass' = p
    /\ result' = CASE p = "functions" -> extract_functions
                   [] p = "classes" -> extract_classes
                   [] p = "variables" -> extract_variables
                   [] p = "calls" -> extract_calls
    /\ earlier' = IF pass = "none" THEN earlier ELSE earlier \cup {<<pass, result>>}
    /\ UNCHANGED <<db, pending, runs, latest, lang, gap, tree, edits, source, span, walkRoot,
                   cursor, visited, yielded>>

NextRerun ==
    \/ \E p \in Nodes(tree), k \in RerunConstructs(lang) :
          edits < MaxRerunConstructs /\ AddConstruct(p, k)
    \/ \E p \in Passes : RunPass(p)

SpecRerun == Init /\ [][NextRerun]_vars

\* C and C++ files of type definitions: the functions, classes and variables passes.
InitTypes ==
    /\ lang \in {"c", "cpp"}
    /\ gap \in {0, 1}
    /\ tree = <<MkNode(RootType(lang), 0, "")>>
    /\ InitCommon

NextTypes ==
    \/ \E p \in Nodes(tree), k \in TypeConstructs(lang) : AddConstruct(p, k)
    \/ ExtractFunctions
    \/ ExtractClasses
    \/ ExtractVariables

SpecTypes == InitTypes /\ [][NextTypes]_vars

\* C and C++ files of declarations with several declarators: the variables pass.
NextDeclarators ==
    \/ \E p \in Nodes(tree), k \in DeclaratorConstructs : AddConstruct(p, k)
    \/ ExtractFunctions
    \/ ExtractVariables

SpecDeclarators == InitTypes /\ [][NextDeclarators]_vars

\* Python files of import statements, and the imports pass on them.
ExtractImports ==
    /\ phase = "parsed"
    /\ pass = "functions"
    /\ pass' = "imports"
    /\ result' = Py_extract_imports
    /\ UNCHANGED <<db, pending, runs, latest, earlier, lang, gap, tree, edits, phase, source, span, walkRoot, cursor, visited, yielded>>

InitImports ==
    /\ lang = "python"
    /\ gap = 1
    /\ tree = <<MkNode(RootType(lang), 0, "")>>
    /\ InitCommon

NextImports ==
    \/ \E p \in Nodes(tree), k \in ImportConstructs : AddConstruct(p, k)
    \/ ExtractFunctions
    \/ ExtractImports

SpecImports == InitImports /\ [][NextImports]_vars

\* Runs of index_repository on one database.  _find_source_files yields the source
\* files of the repository; the loop visits them in turn.  The file written in the
\* model is the content the loop finds at the head of `pending`.
SourceFiles == <<"a.py", "b.py">>

\* The statements of the repository's Python files: two imports in one statement, and
\* a class with a class variable and a method that makes a call.
IndexConstructs ==
    {K({"module"}, <<N("import_statement", 0, ""), N("dotted_name", 1, "name"),
                     N("identifier", 2, ""), N("identifier", 2, ""),
                     N("aliased_import", 1, "name"), N("dotted_name", 5, "name"),
                     N("identifier", 6, ""), N("identifier", 5, "alias")>>),
     K({"module"}, <<N("class_definition", 0, ""), N("identifier", 1, "name"),
                     N("block", 1, "body"), N("expression_statement", 3, ""),
                     N("assignment", 4, ""), N("identifier", 5, "left"),
                     N("function_definition", 3, ""), N("identifier", 7, "name"),
                     N("block", 7, "body"), N("expression_statement", 9, ""),
                     N("call", 10, ""), N("identifier", 11, "function")>>)}

\* index_repository is called: init_db opens the database, the source files are listed.
StartRun ==
    /\ phase = "edit"
    /\ pending = <<>>
    /\ runs < MaxIndexRuns
    /\ runs' = runs + 1
    /\ pending' = SourceFiles
    /\ UNCHANGED <<db, latest, earlier, lang, gap, tree, edits, phase, source, span, pass,
                   result, walkRoot, cursor, visited, yielded>>

\* The loop passes a file by: no extractor, a read error or a parse error (continue).
SkipFile ==
    /\ pending # <<>>
    /\ edits = 0
    /\ pending' = Tail(pending)
    /\ UNCHANGED <<db, runs, latest, earlier, lang, gap, tree, edits, phase, source, span,
                   pass, result, walkRoot, cursor, visited, yielded>>

\* The loop reads and parses the file at the head, replaces its files row, clears,
\* inserts the rows of the five passes and commits; the next file is yet to be read.
IndexFile ==
    /\ pending # <<>>
    /\ LET path == Head(pending)
       IN /\ db' = IndexedFile(db, path, lang, Extracted)
          /\ latest' = (path :> Extracted) @@ latest
    /\ pending' = Tail(pending)
    /\ tree' = <<MkNode(RootType(lang), 0, "")>>
    /\ edits' = 0
    /\ source' = Render(lang, gap, tree')
    /\ span' = Spans(lang, gap, tree')
    /\ UNCHANGED <<runs, earlier, lang, gap, phase, pass, result, walkRoot, cursor, visited,
                   yielded>>

InitIndex ==
    /\ lang = "python"
    /\ gap = 1
    /\ tree = <<MkNode(RootType(lang), 0, "")>>
    /\ InitCommon

NextIndex ==
    \/ StartRun
    \/ \E p \in Nodes(tree), k \in IndexConstructs :
          pending # <<>> /\ edits < MaxIndexConstructs /\ AddConstruct(p, k)
    \/ SkipFile
    \/ IndexFile

SpecIndex == InitIndex /\ [][NextIndex]_vars

----------------------------------------------------------------------------
(* Properties.                                                             *)

\* a comes before b in the pre-order of t: a is an ancestor of b, or the branch
\* to a leaves their nearest common ancestor at an earlier child than the branch to b.
PreBefore(t, a, b) ==
    LET pa == {a} \cup Ancestors(t, a)
        pb == {b} \cup Ancestors(t, b)
        common == pa \cap pb
        lca == CHOOSE c \in common : common \ {c} \subseteq Ancestors(t, c)
        ca == CHOOSE x \in pa : t[x].parent = lca
        cb == CHOOSE x \in pb : t[x].parent = lca
    IN IF a = b THEN FALSE
       ELSE IF a \in pb THEN TRUE
       ELSE IF b \in pa THEN FALSE
       ELSE ca < cb

C1_Safe ==
    phase \in {"walk", "done"} =>
        /\ \A k \in 1..Len(yielded) : yielded[k] \in Subtree(tree, walkRoot)
        /\ \A j, k \in 1..Len(yielded) : j < k => PreBefore(tree, yielded[j], yielded[k])
        /\ phase = "done" =>
              \A n \in Subtree(tree, walkRoot) :
                  Cardinality({k \in 1..Len(yielded) : yielded[k] = n}) = 1

\* C1: walk_tree started at any node n yields exactly the nodes of the subtree of n,
\* each once, in pre-order (a node before its descendants, a child's whole subtree
\* before the next sibling's), nothing outside the subtree, and it terminates.
C1_WalkPreorder == [](C1_Safe) /\ ((phase = "walk") ~> (phase = "done"))

\* A finished walk that started below the root, at a node with a later sibling,
\* over a subtree with a grandchild.
C1_Witness ==
    /\ phase = "done"
    /\ walkRoot > 1
    /\ \E s \in Nodes(tree) : s > walkRoot /\ tree[s].parent = tree[walkRoot].parent
    /\ \E g \in Subtree(tree, walkRoot) : tree[g].parent # walkRoot /\ g # walkRoot
    /\ Len(yielded) >= 3

----------------------------------------------------------------------------
(* What the tree says, independently of the extractors.                    *)

Results == { result[k] : k \in 1..Len(result) }

IsFunctionDef(n) == tree[n].type = "function_definition"

\* The class-like node types of the language.
ClassTypes == IF lang = "python" THEN {"class_definition"}
              ELSE {"class_specifier", "struct_specifier"}

\* The identifier a declarator declares: the leaf its chain of layers ends in.
RECURSIVE BaseId(_)
BaseId(n) ==
    IF n = 0 THEN 0
    ELSE IF tree[n].type \in {"identifier", "field_identifier"} THEN n
    ELSE IF tree[n].type = "qualified_identifier"
    THEN BaseId(child_by_field_name(tree, n, "name"))
    ELSE IF tree[n].type \in {"function_declarator", "pointer_declarator",
                              "init_declarator", "array_declarator"}
    THEN BaseId(child_by_field_name(tree, n, "declarator"))
    ELSE IF tree[n].type \in {"parenthesized_declarator", "reference_declarator"}
    THEN BaseId(goto_first_child(tree, n))
    ELSE 0

\* The node that spells the name of function definition f, or 0.
NameNode(f) ==
    IF lang = "python" THEN child_by_field_name(tree, f, "name")
    ELSE BaseId(child_by_field_name(tree, f, "declarator"))

NamedFunctions == { f \in Nodes(tree) : IsFunctionDef(f) /\ NameNode(f) # 0 }

\* pos lies in the byte range [start, end) of node f.
InRange(f, pos) == start_byte(f) <= pos /\ pos < end_byte(f)

\* The innermost definition around n is a function definition: n is in a function's
\* body and not in the body of a class written inside it.
InFunctionBody(n) ==
    LET scopes == { a \in Ancestors(tree, n) :
                      IsFunctionDef(a) \/ tree[a].type \in ClassTypes }
    IN /\ scopes # {}
       /\ IsFunctionDef(CHOOSE a \in scopes : \A b \in scopes : b <= a)

\* C2 (as the specification states it): extract_variables emits nothing for an assignment or declaration
\* inside a function body, a method's body inside a class included.
C2_NoFunctionLocals ==
    pass = "variables" => \A v \in Results : ~InFunctionBody(v.node)

\* C3 (as the specification states it): a function definition whose name cannot be recovered yields no
\* FunctionInfo; no emitted name is a placeholder.
C3_NoPlaceholderName ==
    pass = "functions" =>
        \A f \in Results : /\ NameNode(f.node) # 0
                           /\ Truthy(f.name)
                           /\ f.name # <<"<unknown>">>

\* f is defined as a member of a class: lexically inside a class body, or (C++) under
\* a qualified name.
IsMethod(f) ==
    \/ \E c \in Ancestors(tree, f) :
          tree[c].type \in ClassTypes /\ child_by_field_name(tree, c, "name") # 0
    \/ /\ lang = "cpp"
       /\ \E q \in Subtree(tree, child_by_field_name(tree, f, "declarator")) :
             tree[q].type = "qualified_identifier"
             /\ child_by_field_name(tree, f, "declarator") # 0

\* C4 (as the specification states it): an emitted FunctionInfo has class_name set exactly when the
\* function is a method.
C4_ClassNameIffMethod ==
    pass = "functions" =>
        \A f \in Results : (f.class_name # NoText) <=> IsMethod(f.node)

\* The Python assignments `a = ...` written as a statement directly in block b.
PyAssignmentsIn(b) ==
    { n \in Nodes(tree) :
        /\ tree[n].type = "assignment"
        /\ tree[n].parent # 0
        /\ tree[tree[n].parent].type = "expression_statement"
        /\ tree[tree[n].parent].parent = b
        /\ child_by_field_name(tree, n, "left") # 0
        /\ tree[child_by_field_name(tree, n, "left")].type = "identifier" }

\* C5: every VariableInfo has scope global or class, with class_name set exactly for
\* class; a Python assignment directly in the module is emitted global without
\* class_name, one directly in the body block of a (named) class is emitted with
\* scope class and that class's name.
C5_VariableScope ==
    pass = "variables" =>
        /\ \A v \in Results :
              /\ v.scope \in {"global", "class"}
              /\ (v.class_name # NoText) <=> (v.scope = "class")
        /\ lang = "python" =>
              /\ \A n \in PyAssignmentsIn(1) :
                    \E v \in Results :
                        v.node = n /\ v.scope = "global" /\ v.class_name = NoText
              /\ \A c \in Nodes(tree), n \in Nodes(tree) :
                    ( /\ tree[c].type = "class_definition"
                      /\ child_by_field_name(tree, c, "name") # 0
                      /\ child_by_field_name(tree, c, "body") # 0
                      /\ n \in PyAssignmentsIn(child_by_field_name(tree, c, "body")) )
                    => \E v \in Results :
                          /\ v.node = n
                          /\ v.scope = "class"
                          /\ v.class_name = get_node_text(child_by_field_name(tree, c, "name"))
              /\ \A v \in Results :
                    \A w \in Results : v.node = w.node => v = w

\* A module-level and a class-level Python variable have been extracted.
C5_Witness ==
    /\ pass = "variables"
    /\ lang = "python"
    /\ \E v, w \in Results : v.scope = "global" /\ w.scope = "class"

\* The named function definitions whose byte range holds the start of call c.
Enclosing(c) == { f \in NamedFunctions : InRange(f, start_byte(c)) }

\* C6: a call whose start byte lies in the range of exactly one named function
\* definition is emitted with that function's (unqualified) name as caller_function.
C6_SingleEnclosingCaller ==
    pass = "calls" =>
        \A c \in Results :
            \A f \in Enclosing(c.node) :
                Enclosing(c.node) = {f} => c.caller_function = get_node_text(NameNode(f))

\* A call inside exactly one function has been attributed, in a C++ file whose
\* function is defined under a qualified name.
C6_Witness ==
    /\ pass = "calls"
    /\ \E c \in Results : \E f \in Enclosing(c.node) :
          /\ Enclosing(c.node) = {f}
          /\ c.caller_function # NoText
          /\ lang = "cpp"
          /\ tree[child_by_field_name(tree, child_by_field_name(tree, f, "declarator"),
                                      "declarator")].type = "qualified_identifier"

\* C7 (as the specification states it): a call whose start byte lies in no function definition's range
\* [start, end) is emitted with caller_function = None.
C7_OutsideCallerNone ==
    pass = "calls" =>
        \A c \in Results :
            (\A f \in Nodes(tree) : IsFunctionDef(f) => ~InRange(f, start_byte(c.node)))
            => c.caller_function = NoText

\* C8: a call inside nested named function definitions is attributed to the first
\* of them in pre-order, which is the outermost one.
C8_OutermostCaller ==
    pass = "calls" =>
        \A c \in Results :
            Cardinality(Enclosing(c.node)) >= 2 =>
                \E f \in Enclosing(c.node) :
                    /\ \A g \in Enclosing(c.node) : g = f \/ f \in Ancestors(tree, g)
                    /\ \A g \in Enclosing(c.node) : PreBefore(tree, f, g) \/ g = f
                    /\ c.caller_function = get_node_text(NameNode(f))

\* A call written inside a function nested in another function has been attributed.
C8_Witness ==
    /\ pass = "calls"
    /\ \E c \in Results :
          /\ Cardinality(Enclosing(c.node)) >= 2
          /\ \A f \in Enclosing(c.node) : f \in Ancestors(tree, c.node)

\* The declarator layers a function declarator may be wrapped in.
Wrappers == IF lang = "cpp"
            THEN {"pointer_declarator", "parenthesized_declarator", "reference_declarator"}
            ELSE {"pointer_declarator", "parenthesized_declarator"}

\* The node under the wrapper layers of declarator n.
RECURSIVE Unwrapped(_)
Unwrapped(n) ==
    LET inner == IF tree[n].type = "pointer_declarator"
                 THEN child_by_field_name(tree, n, "declarator")
                 ELSE goto_first_child(tree, n)
    IN IF tree[n].type \in Wrappers /\ inner # 0 THEN Unwrapped(inner) ELSE n

\* The function definitions of the shape of C9: wrapper layers around a function
\* declarator that declares an identifier, with a return type and a parameter list.
WrappedFunctions ==
    { f \in Nodes(tree) :
        /\ IsFunctionDef(f)
        /\ child_by_field_name(tree, f, "type") # 0
        /\ child_by_field_name(tree, f, "declarator") # 0
        /\ LET fd == Unwrapped(child_by_field_name(tree, f, "declarator"))
           IN /\ tree[fd].type = "function_declarator"
              /\ child_by_field_name(tree, fd, "declarator") # 0
              /\ tree[child_by_field_name(tree, fd, "declarator")].type = "identifier"
              /\ child_by_field_name(tree, fd, "parameters") # 0 }

\* C9: in C and C++, a function definition whose function declarator is wrapped in
\* pointer / parenthesized (/ reference) layers is emitted with the base identifier as
\* name and the signature "<return-type> <name><params>", the wrappers dropped.
C9_WrappedDeclarator ==
    (pass = "functions" /\ lang \in {"c", "cpp"}) =>
        \A f \in WrappedFunctions :
            LET fd == Unwrapped(child_by_field_name(tree, f, "declarator"))
                name == get_node_text(child_by_field_name(tree, fd, "declarator"))
                params == get_node_text(child_by_field_name(tree, fd, "parameters"))
                ret == get_node_text(child_by_field_name(tree, f, "type"))
            IN \E e \in Results :
                  /\ e.node = f
                  /\ e.name = name
                  /\ e.signature = ret \o <<" ">> \o name \o params

\* A C function whose declarator is wrapped in a layer has been extracted.
C9_Witness ==
    /\ pass = "functions"
    /\ lang = "c"
    /\ \E f \in WrappedFunctions :
          /\ tree[child_by_field_name(tree, f, "declarator")].type \in Wrappers
          /\ \E e \in Results : e.node = f

\* The global declarations whose declarator is a pointer to function, (*a)(b).
FunctionPointerDeclarations ==
    { d \in Nodes(tree) :
        /\ tree[d].type = "declaration"
        /\ tree[d].parent = 1
        /\ child_by_field_name(tree, d, "declarator") # 0
        /\ LET fd == child_by_field_name(tree, d, "declarator")
               par == child_by_field_name(tree, fd, "declarator")
           IN /\ tree[fd].type = "function_declarator"
              /\ par # 0
              /\ tree[par].type = "parenthesized_declarator"
              /\ goto_first_child(tree, par) # 0
              /\ tree[goto_first_child(tree, par)].type = "pointer_declarator"
              /\ BaseId(fd) # 0 }

\* C10 (as the specification states it): a global declaration of a pointer to function, int (*fp)(void),
\* is emitted as a variable named after its base identifier.
C10_FunctionPointerVariable ==
    (pass = "variables" /\ lang \in {"c", "cpp"}) =>
        \A d \in FunctionPointerDeclarations :
            \E v \in Results :
                /\ v.node = d
                /\ v.name = get_node_text(BaseId(child_by_field_name(tree, d, "declarator")))

\* The declarator resolver of the language of the file.
extract_declarator_info(n) ==
    IF lang = "cpp" THEN Cpp_extract_declarator_info(n) ELSE C_extract_declarator_info(n)

IdentifierKinds == {"identifier", "qualified_identifier", "field_identifier"}

\* The function declarators under n that wrap the name directly.
InnermostDeclarators(n) ==
    { d \in Subtree(tree, n) :
        /\ tree[d].type = "function_declarator"
        /\ child_by_field_name(tree, d, "declarator") # 0
        /\ tree[child_by_field_name(tree, d, "declarator")].type \in IdentifierKinds }

\* C11 (as the specification states it): for nested function declarators the
\* resolver returns the parameter-list text of the innermost one, the one that wraps
\* the name, never that of an outer one.
C11_InnermostParameters ==
    (pass = "functions" /\ lang \in {"c", "cpp"}) =>
        \A n \in Nodes(tree) : \A d \in InnermostDeclarators(n) :
            ( /\ tree[n].type = "function_declarator"
              /\ child_by_field_name(tree, d, "parameters") # 0
              /\ Truthy(extract_declarator_info(n)[1]) )
            => extract_declarator_info(n)[2]
                  = get_node_text(child_by_field_name(tree, d, "parameters"))

\* The C++ function definitions declared under a qualified name a::b(c).
QualifiedFunctions ==
    { f \in Nodes(tree) :
        /\ IsFunctionDef(f)
        /\ child_by_field_name(tree, f, "type") # 0
        /\ child_by_field_name(tree, f, "declarator") # 0
        /\ LET fd == child_by_field_name(tree, f, "declarator")
           IN /\ tree[fd].type = "function_declarator"
              /\ child_by_field_name(tree, fd, "parameters") # 0
              /\ child_by_field_name(tree, fd, "declarator") # 0
              /\ tree[child_by_field_name(tree, fd, "declarator")].type
                    = "qualified_identifier" }

\* C12: a C++ function definition under a qualified name is emitted with the name
\* split at the last "::": class_name before it, name after it, no "::" in name,
\* class_name::name the qualified text, and the unqualified name in the signature.
C12_SplitAtLastScope ==
    (pass = "functions" /\ lang = "cpp") =>
        \A f \in QualifiedFunctions :
            LET fd == child_by_field_name(tree, f, "declarator")
                qualified == get_node_text(child_by_field_name(tree, fd, "declarator"))
            IN \E e \in Results :
                  /\ e.node = f
                  /\ e.class_name # NoText
                  /\ e.class_name \o <<"::">> \o e.name = qualified
                  /\ \A k \in 1..Len(e.name) : e.name[k] # "::"
                  /\ e.signature
                        = get_node_text(child_by_field_name(tree, f, "type")) \o <<" ">>
                          \o e.name
                          \o get_node_text(child_by_field_name(tree, fd, "parameters"))

\* A function a::b::c has been extracted: the class part holds a "::" itself.
C12_Witness ==
    /\ pass = "functions"
    /\ lang = "cpp"
    /\ \E e \in Results :
          /\ e.node \in QualifiedFunctions
          /\ \E k \in 1..Len(e.class_name) : e.class_name[k] = "::"

\* The statements of block b, comments left out, in source order.
Statements(b) ==
    SetToSortedSeq({ c \in Children(tree, b) : tree[c].type # "comment" })

\* Statement c is a bare string literal.
IsStringStatement(c) ==
    /\ tree[c].type = "expression_statement"
    /\ goto_first_child(tree, c) # 0
    /\ tree[goto_first_child(tree, c)].type = "string"

\* C13 (as the specification states it): a Python function has a docstring exactly
\* when the first non-comment statement of its body is a bare string literal; with
\* any other first statement (a call included) or an empty body it is None, also
\* when a string statement comes later.
C13_DocstringFirstStatement ==
    (pass = "functions" /\ lang = "python") =>
        \A e \in Results :
            LET body == child_by_field_name(tree, e.node, "body")
                stmts == IF body = 0 THEN <<>> ELSE Statements(body)
            IN IF stmts # <<>> /\ IsStringStatement(stmts[1])
               THEN e.docstring = Unquote(get_node_text(goto_first_child(tree, stmts[1])))
               ELSE e.docstring = NoText

\* The class-like nodes the classes pass of the language looks at.
ClassNodes ==
    { n \in Nodes(tree) :
        tree[n].type \in (IF lang = "c" THEN {"struct_specifier"}
                          ELSE {"class_specifier", "struct_specifier"}) }

FailingFunctions == { f \in Nodes(tree) : IsFunctionDef(f) /\ NameNode(f) = 0 }

MemberName(fn) ==
    IF tree[fn].type = "attribute" THEN child_by_field_name(tree, fn, "attribute")
    ELSE IF tree[fn].type = "field_expression" THEN child_by_field_name(tree, fn, "field")
    ELSE 0

\* C17 (as the specification states it): in each of the three extractors a call
\* through a field/attribute access is emitted with the field/attribute name alone
\* as callee_name, and a call of an identifier with the identifier's text.
C17_MethodCallCallee ==
    pass = "calls" =>
        \A c \in Nodes(tree) :
            LET fn == child_by_field_name(tree, c, "function")
            IN (tree[c].type \in {"call", "call_expression"} /\ fn # 0) =>
                  /\ tree[fn].type = "identifier" =>
                        \E e \in Results : e.node = c /\ e.callee_name = get_node_text(fn)
                  /\ MemberName(fn) # 0 =>
                        \E e \in Results :
                            e.node = c /\ e.callee_name = get_node_text(MemberName(fn))

\* The nearest enclosing class/struct node of n, or 0.
NearestClass(n) ==
    LET up == { a \in Ancestors(tree, n) : tree[a].type \in ClassTypes }
    IN IF up = {} THEN 0 ELSE CHOOSE a \in up : \A b \in up : b <= a

\* The field declarations that declare a name inside a named struct/class.
NamedFields ==
    { f \in Nodes(tree) :
        LET d == child_by_field_name(tree, f, "declarator")
            c == NearestClass(f)
        IN /\ tree[f].type = "field_declaration"
           /\ d # 0 /\ tree[d].type = "field_identifier"
           /\ c # 0 /\ child_by_field_name(tree, c, "name") # 0 }

\* C18 (as the specification states it): in C and in C++, after the variables pass
\* every field declaration inside a named struct/class, however deep it is nested,
\* has a VariableInfo with scope "class" whose class_name is the name of the nearest
\* enclosing class/struct.
C18_FieldClassScope ==
    pass = "variables" =>
        \A f \in NamedFields :
            \E e \in Results :
                /\ e.node = f
                /\ e.name = get_node_text(child_by_field_name(tree, f, "declarator"))
                /\ e.scope = "class"
                /\ e.class_name =
                      get_node_text(child_by_field_name(tree, NearestClass(f), "name"))

\* The imported names of the file in source order: the name children of its import
\* statements.
ImportedNames ==
    SetToSortedSeq({ i \in Nodes(tree) :
                       /\ tree[i].fld = "name"
                       /\ tree[i].parent # 0
                       /\ tree[tree[i].parent].type \in ImportStatements })

\* The module path the specification gives for imported name i.
ImportedModule(i) ==
    LET stmt == tree[i].parent
        from == child_by_field_name(tree, stmt, "module_name")
        name == IF tree[i].type = "aliased_import"
                THEN get_node_text(child_by_field_name(tree, i, "name"))
                ELSE get_node_text(i)
    IN IF tree[stmt].type = "import_from_statement" /\ from # 0
       THEN get_node_text(from) \o <<".">> \o name
       ELSE name

ResolverLayers == {"function_declarator", "pointer_declarator", "reference_declarator",
                   "parenthesized_declarator"}

\* The resolver applied to node n gives n's own text and the parameters "()".
ResolvesToOwnText(n) == extract_declarator_info(n) = <<get_node_text(n), <<"(", ")">> >>

ResolvedKinds == IF lang = "cpp" THEN IdentifierKinds ELSE {"identifier"}

C21_CallerIsFunctionName ==
    pass = "calls" =>
        LET functions == extract_functions
        IN \A c \in Results :
              c.caller_function # NoText =>
                  /\ \E k \in 1..Len(functions) : functions[k].name = c.caller_function
                  /\ lang = "cpp" => ~HasScopeSep(c.caller_function)

\* A call in a C++ file is attributed to a function that extract_functions emits as
\* a method of a class: its declarator spells a qualified name.
C21_Witness ==
    /\ pass = "calls"
    /\ lang = "cpp"
    /\ \E c \in Results : \E k \in 1..Len(extract_functions) :
          /\ c.caller_function # NoText
          /\ extract_functions[k].name = c.caller_function
          /\ extract_functions[k].class_name # NoText
          /\ HasScopeSep(Cpp_extract_declarator_info(
                 child_by_field_name(tree, extract_functions[k].node, "declarator"))[1])

\* The rows of a table that reference the files row fid, in id order.
Stored(table, fid) ==
    LET S == { r \in db[table] : r.file_id = fid }
        ids == SetToSortedSeq({ r.id : r \in S })
    IN [k \in 1..Len(ids) |-> CHOOSE r \in S : r.id = ids[k]]

\* C22: after any number of index_repository runs on one database every indexed path
\* has a single files row, each of the five tables holds for it exactly the rows of the
\* last time the path was indexed, referencing that files row, and no row of the five
\* tables references a files id that is gone.
C22_ReindexKeepsLatestRows ==
    /\ \A f \in db.files : f.path \in DOMAIN latest
    /\ \A p \in DOMAIN latest :
          LET current == { f \in db.files : f.path = p }
          IN /\ Cardinality(current) = 1
             /\ \A f \in current : \A t \in DataTables :
                   LET stored == Stored(t, f.id)
                       lists == latest[p][t]
                   IN /\ Len(stored) = Len(lists)
                      /\ \A k \in 1..Len(lists) :
                            stored[k] = RowOf(t, stored[k].id, f.id, lists[k])
    /\ \A t \in DataTables : \A r \in db[t] : \E f \in db.files : f.id = r.file_id

\* A later run has indexed a path again: its files row has been replaced (a files id
\* beyond the number of files rows), a table has lost rows of the run before (a row id
\* beyond the number of its rows) and holds rows of this run, and both paths are in
\* the database.
C22_Witness ==
    /\ runs > 1
    /\ { f.path : f \in db.files } = { SourceFiles[k] : k \in 1..Len(SourceFiles) }
    /\ \E f \in db.files : f.id > Cardinality(db.files)
    /\ \E t \in DataTables : \E r \in db[t] : r.id > Cardinality(db[t])

\* The declarator children of a declaration, in order.
DeclaratorsOf(n) == SelectSeq(ChildSeq(tree, n), LAMBDA c : tree[c].fld = "declarator")

\* The declarations extract_variables hands to _extract_declaration or _extract_field.
AcceptedDeclaration(n) ==
    \/ /\ tree[n].type = "declaration"
       /\ tree[n].parent # 0
       /\ tree[tree[n].parent].type = "translation_unit"
    \/ /\ lang = "cpp"
       /\ tree[n].type = "field_declaration"
       /\ Truthy(Cpp_get_parent_class(n))

\* The identifiers spelled inside a declarator.
SpelledIn(d) ==
    { get_node_text(i) : i \in { j \in Subtree(tree, d) :
                                   tree[j].type \in {"identifier", "field_identifier"} } }

\* C23: in C and C++ every accepted declaration or field_declaration gives at most one
\* VariableInfo; the record carries a name spelled in the first declarator of the
\* declaration, and no name spelled in a later declarator is the name of a record.
C23_FirstDeclaratorOnly ==
    (pass = "variables" /\ lang \in {"c", "cpp"}) =>
        \A n \in Nodes(tree) :
            AcceptedDeclaration(n) =>
                LET records == { k \in 1..Len(result) : result[k].node = n }
                    declarators == DeclaratorsOf(n)
                IN /\ Cardinality(records) <= 1
                   /\ \A k \in records :
                         /\ declarators # <<>>
                         /\ result[k].name \in SpelledIn(declarators[1])
                         /\ \A j \in 2..Len(declarators) :
                               result[k].name \notin SpelledIn(declarators[j])

\* The variables pass has run on a file with an accepted declaration of two
\* declarators, both of which spell a variable name, and one record was made of it.
C23_Witness ==
    /\ pass = "variables"
    /\ \E n \in Nodes(tree) :
          /\ AcceptedDeclaration(n)
          /\ Len(DeclaratorsOf(n)) >= 2
          /\ SpelledIn(DeclaratorsOf(n)[2]) # {}
          /\ Cardinality({ k \in 1..Len(result) : result[k].node = n }) = 1

====
